---- MODULE Spec2Model ----
(***************************************************************************)
(* Dynatrace AI Assistant: the problem correlator                         *)
(* (src/dynatrace_api/problems.py), the intent parser                     *)
(* (src/prompt_handler/intent_parser.py) and the per-turn conversation    *)
(* context (src/main.py).                                                 *)
(*                                                                         *)
(* Python values are encoded as records with a type field t:              *)
(*   [t |-> "null"]            None                                       *)
(*   [t |-> "str", s |-> cs]   a str, cs its sequence of characters       *)
(*   [t |-> "list", l |-> xs]  a list                                     *)
(*   [t |-> "obj", k1 |-> ..]  a dict; a key the dict does not hold has   *)
(*                             the value Absent                            *)
(* Raise is the outcome of an operation that raised an exception.         *)
(***************************************************************************)
EXTENDS Integers, Sequences, FiniteSets, TLC

VARIABLES
    \* ---- problem correlator (src/dynatrace_api/problems.py) ----
    entity_id,          \* argument entity_id of get_problems_for_service (None in name-only mode)
    service_name,       \* argument service_name of get_problems_for_service
    all_problems,       \* data.get("problems", []): the fetched dicts, tagged in place
    service_problems,   \* the list the filter returned: indices into all_problems
    corr_pc,            \* "fetched" | "returned" | "raised" | "categorized"
    problems_arg,       \* argument of categorize_problems
    categorized,        \* result of categorize_problems: bucket -> indices into problems_arg
    \* ---- intent parser (src/prompt_handler/intent_parser.py) ----
    use_ai,             \* AIIntentParser.use_ai
    provider,           \* ai_client.provider
    user_input,         \* argument user_input of parse and of process_user_input
    ai_response,        \* what _call_ai returned in this call of parse (Raise when it raised)
    parsed,             \* what parse returned
    \* ---- chat session (src/main.py) ----
    conversation_context,   \* st.session_state.conversation_context
    context_at_start,       \* conversation_context as it was when the turn began
    intent,             \* local intent of process_user_input
    response,           \* the kind of message process_user_input returned
    messages,           \* st.session_state.messages: the chat history
    updates,            \* how often update_context was called in this turn
    pc,                 \* the next step of the turn, "idle" between turns
    \* ---- timeframe utilities (src/utils/timeframe.py) ----
    timeframe_arg,      \* argument timeframe of parse_timeframe and human_readable_timeframe
    utc_now,            \* datetime.utcnow(), in minutes since datetime.min
    window,             \* what parse_timeframe returned or raised
    readable            \* what human_readable_timeframe returned

corr_vars == <<entity_id, service_name, all_problems, service_problems, corr_pc,
               problems_arg, categorized>>

sess_vars == <<use_ai, provider, user_input, ai_response, parsed,
               conversation_context, context_at_start, intent, response,
               messages, updates, pc>>

time_vars == <<timeframe_arg, utc_now, window, readable>>

vars == <<corr_vars, sess_vars, time_vars>>

----------------------------------------------------------------------------
(* Python values *)

Absent == [t |-> "absent"]
JNull == [t |-> "null"]
Raise == [t |-> "raise"]
JStr(cs) == [t |-> "str", s |-> cs]
JList(xs) == [t |-> "list", l |-> xs]

UpperCase == <<"A","B","C","D","E","F","G","H","I","J","K","L","M",
               "N","O","P","Q","R","S","T","U","V","W","X","Y","Z">>
LowerCase == <<"a","b","c","d","e","f","g","h","i","j","k","l","m",
               "n","o","p","q","r","s","t","u","v","w","x","y","z">>

\* one character of str.lower()
lower_char(c) ==
    IF \E i \in 1..Len(UpperCase) : UpperCase[i] = c
    THEN LowerCase[CHOOSE i \in 1..Len(UpperCase) : UpperCase[i] = c]
    ELSE c

\* one character of str.upper()
upper_char(c) ==
    IF \E i \in 1..Len(LowerCase) : LowerCase[i] = c
    THEN UpperCase[CHOOSE i \in 1..Len(LowerCase) : LowerCase[i] = c]
    ELSE c

\* str.lower() / str.upper() on character sequences
lower_chars(cs) == [i \in 1..Len(cs) |-> lower_char(cs[i])]
upper_chars(cs) == [i \in 1..Len(cs) |-> upper_char(cs[i])]

\* v.lower(): AttributeError unless v is a str
py_lower(v) == IF v.t = "str" THEN JStr(lower_chars(v.s)) ELSE Raise

\* v.upper(): AttributeError unless v is a str
py_upper(v) == IF v.t = "str" THEN JStr(upper_chars(v.s)) ELSE Raise

\* `sub in cs` on two strs: sub occurs as a contiguous substring of cs
contains(cs, sub) ==
    \E i \in 0..(Len(cs) - Len(sub)) : SubSeq(cs, i + 1, i + Len(sub)) = sub

\* d.get(key, default): AttributeError unless d is a dict
py_get(d, key, default) ==
    IF d.t # "obj" THEN Raise
    ELSE IF d[key] = Absent THEN default
    ELSE d[key]

\* bool(v) as `if v:` evaluates it
truthy(v) ==
    CASE v.t = "null" -> FALSE
      [] v.t = "str" -> Len(v.s) > 0
      [] v.t = "list" -> Len(v.l) > 0
      [] v.t = "obj" -> \E k \in DOMAIN v : k # "t" /\ v[k] # Absent
      [] v.t = "num" -> v.n # 0
      [] v.t = "bool" -> v.b
      [] OTHER -> FALSE

\* a + b on lists: TypeError unless both are lists
py_concat(a, b) ==
    IF a.t = "list" /\ b.t = "list" THEN JList(a.l \o b.l) ELSE Raise

----------------------------------------------------------------------------
(* String literals of src/dynatrace_api/problems.py *)

RootCauseTag == JStr(<<"r","o","o","t","_","c","a","u","s","e">>)
DirectlyImpactedTag == JStr(<<"d","i","r","e","c","t","l","y","_","i","m","p","a","c","t","e","d">>)
IndirectlyAffectedTag == JStr(<<"i","n","d","i","r","e","c","t","l","y","_","a","f","f","e","c","t","e","d">>)
NameMatchTag == JStr(<<"n","a","m","e","_","m","a","t","c","h">>)
TitleMatchTag == JStr(<<"t","i","t","l","e","_","m","a","t","c","h">>)
EntityMatchTag == JStr(<<"e","n","t","i","t","y","_","m","a","t","c","h">>)
UnknownTag == JStr(<<"u","n","k","n","o","w","n">>)
RESOLVED == JStr(<<"R","E","S","O","L","V","E","D">>)
ERROR == JStr(<<"E","R","R","O","R">>)
CUSTOM_ALERT == JStr(<<"C","U","S","T","O","M","_","A","L","E","R","T">>)
EmptyStr == JStr(<<>>)

\* the literal {} used as a default: a dict holding none of the keys
EmptyEntityId == [t |-> "obj", id |-> Absent]
EmptyEntity == [t |-> "obj", entityId |-> Absent, name |-> Absent]

----------------------------------------------------------------------------
(* _calculate_relevance and the two filters *)

\* entity.get("entityId", {}).get("id")
entity_id_of(entity) ==
    LET eid == py_get(entity, "entityId", EmptyEntityId)
    IN  IF eid = Raise THEN Raise ELSE py_get(eid, "id", JNull)

\* the loop of _calculate_relevance over impactedEntities: "yes" when some
\* entity has the id, "raise" when an entity before it has a null entityId
RECURSIVE impacted_has_id(_, _, _)
impacted_has_id(impacted, k, eid) ==
    IF k > Len(impacted) THEN "no"
    ELSE LET id == entity_id_of(impacted[k])
         IN  IF id = Raise THEN "raise"
             ELSE IF id = eid THEN "yes"
             ELSE impacted_has_id(impacted, k + 1, eid)

calculate_relevance_impacted_first(problem, eid) ==
    LET root_cause == py_get(problem, "rootCauseEntity", EmptyEntity)
        impacted == py_get(problem, "impactedEntities", JList(<<>>))
        hit == IF impacted.t = "list" THEN impacted_has_id(impacted.l, 1, eid) ELSE "raise"
        root_id == entity_id_of(root_cause)
    IN  IF hit = "raise" THEN Raise
        ELSE IF hit = "yes" THEN DirectlyImpactedTag
        ELSE IF root_id = Raise THEN Raise
        ELSE IF root_id = eid THEN RootCauseTag
        ELSE IndirectlyAffectedTag

calculate_relevance(problem, eid) ==
    LET root_cause == py_get(problem, "rootCauseEntity", EmptyEntity)
        root_id == entity_id_of(root_cause)
        impacted == py_get(problem, "impactedEntities", JList(<<>>))
        hit == IF impacted.t = "list" THEN impacted_has_id(impacted.l, 1, eid) ELSE "raise"
    IN  IF root_id = Raise THEN Raise
        ELSE IF root_id = eid THEN RootCauseTag
        ELSE IF hit = "raise" THEN Raise
        ELSE IF hit = "yes" THEN DirectlyImpactedTag
        ELSE IndirectlyAffectedTag

all_entities_without_root(problem) ==
    LET impacted == py_get(problem, "impactedEntities", JList(<<>>))
        affected == py_get(problem, "affectedEntities", JList(<<>>))
    IN  py_concat(impacted, affected)

\* all_entities of _filter_problems_by_entity (lines 98-105)
all_entities_of(problem) ==
    LET impacted == py_get(problem, "impactedEntities", JList(<<>>))
        affected == py_get(problem, "affectedEntities", JList(<<>>))
        root_cause == py_get(problem, "rootCauseEntity", EmptyEntity)
        both == py_concat(impacted, affected)
    IN  IF both = Raise THEN Raise
        ELSE IF truthy(root_cause) THEN JList(Append(both.l, root_cause))
        ELSE both

NoMatch == [t |-> "nomatch"]

\* the inner loop of _filter_problems_by_entity (lines 108-122) from entity k
\* on: the tag the problem gets, NoMatch when the loop ends without a break,
\* Raise when it raises
RECURSIVE match_entities(_, _, _, _, _)
match_entities(problem, entities, k, eid, sname) ==
    IF k > Len(entities) THEN NoMatch
    ELSE LET entity == entities[k]
             id == entity_id_of(entity)
             entity_name == py_lower(py_get(entity, "name", EmptyStr))
         IN  IF id = Raise THEN Raise
             ELSE IF id = eid THEN calculate_relevance(problem, eid)
             ELSE IF entity_name = Raise THEN Raise
             ELSE IF contains(entity_name.s, lower_chars(sname.s)) THEN NameMatchTag
             ELSE match_entities(problem, entities, k + 1, eid, sname)

\* one iteration of the outer loop of _filter_problems_by_entity
entity_tag_of(problem, eid, sname) ==
    LET ents == all_entities_of(problem)
    IN  IF ents = Raise THEN Raise
        ELSE match_entities(problem, ents.l, 1, eid, sname)

\* the inner loop of _filter_problems_by_name (lines 158-163)
RECURSIVE match_names(_, _, _)
match_names(entities, k, service_lower) ==
    IF k > Len(entities) THEN NoMatch
    ELSE LET entity_name == py_lower(py_get(entities[k], "name", EmptyStr))
         IN  IF entity_name = Raise THEN Raise
             ELSE IF contains(entity_name.s, service_lower) THEN EntityMatchTag
             ELSE match_names(entities, k + 1, service_lower)

\* _filter_problems_by_name looking at the entities before the title; an
\* error in that code
name_tag_of_entities_first(problem, sname) ==
    LET service_lower == lower_chars(sname.s)
        title == py_lower(py_get(problem, "title", EmptyStr))
        display_name == py_lower(py_get(problem, "displayName", EmptyStr))
        impacted == py_get(problem, "impactedEntities", JList(<<>>))
        affected == py_get(problem, "affectedEntities", JList(<<>>))
        both == py_concat(impacted, affected)
    IN  IF title = Raise \/ display_name = Raise \/ both = Raise THEN Raise
        ELSE IF match_names(both.l, 1, service_lower) # NoMatch
             THEN match_names(both.l, 1, service_lower)
        ELSE IF contains(title.s, service_lower) \/ contains(display_name.s, service_lower)
             THEN TitleMatchTag
        ELSE NoMatch

\* one iteration of the outer loop of _filter_problems_by_name
name_tag_of(problem, sname) ==
    LET service_lower == lower_chars(sname.s)
        title == py_lower(py_get(problem, "title", EmptyStr))
        display_name == py_lower(py_get(problem, "displayName", EmptyStr))
        impacted == py_get(problem, "impactedEntities", JList(<<>>))
        affected == py_get(problem, "affectedEntities", JList(<<>>))
        both == py_concat(impacted, affected)
    IN  IF title = Raise \/ display_name = Raise THEN Raise
        ELSE IF contains(title.s, service_lower) \/ contains(display_name.s, service_lower)
             THEN TitleMatchTag
        ELSE IF both = Raise THEN Raise
        ELSE match_names(both.l, 1, service_lower)

\* the tag of one problem in the mode get_problems_for_service selects
\* (lines 65-68): `if entity_id:` is the entity-id mode
tag_of(problem, eid, sname) ==
    IF truthy(eid) THEN entity_tag_of(problem, eid, sname)
    ELSE name_tag_of(problem, sname)

\* the outer loop tagging the problems it rejects as well; an error in that
\* code
RECURSIVE filter_loop_tags_rejected(_, _, _, _)
filter_loop_tags_rejected(st, i, eid, sname) ==
    IF i > Len(st.problems) THEN st
    ELSE LET tag == tag_of(st.problems[i], eid, sname)
         IN  IF tag = Raise THEN [st EXCEPT !.raised = TRUE]
             ELSE IF tag = NoMatch
             THEN filter_loop_tags_rejected(
                    [st EXCEPT !.problems[i].relevance = UnknownTag],
                    i + 1, eid, sname)
             ELSE filter_loop_tags_rejected(
                    [st EXCEPT !.problems[i].relevance = tag,
                               !.filtered = Append(@, i)],
                    i + 1, eid, sname)

\* the outer loop writing the tag into the status of the problem as well;
\* an error in that code
RECURSIVE filter_loop_tags_status(_, _, _, _)
filter_loop_tags_status(st, i, eid, sname) ==
    IF i > Len(st.problems) THEN st
    ELSE LET tag == tag_of(st.problems[i], eid, sname)
         IN  IF tag = Raise THEN [st EXCEPT !.raised = TRUE]
             ELSE IF tag = NoMatch THEN filter_loop_tags_status(st, i + 1, eid, sname)
             ELSE filter_loop_tags_status(
                    [st EXCEPT !.problems[i].relevance = tag,
                               !.problems[i].status = tag,
                               !.filtered = Append(@, i)],
                    i + 1, eid, sname)

\* the outer loop putting an accepted problem at the head of the output;
\* an error in that code
RECURSIVE filter_loop_inserts_first(_, _, _, _)
filter_loop_inserts_first(st, i, eid, sname) ==
    IF i > Len(st.problems) THEN st
    ELSE LET tag == tag_of(st.problems[i], eid, sname)
         IN  IF tag = Raise THEN [st EXCEPT !.raised = TRUE]
             ELSE IF tag = NoMatch THEN filter_loop_inserts_first(st, i + 1, eid, sname)
             ELSE filter_loop_inserts_first(
                    [st EXCEPT !.problems[i].relevance = tag,
                               !.filtered = <<i>> \o @],
                    i + 1, eid, sname)

\* the outer loop of either filter from problem i on, over the state
\* st = [problems, filtered, raised]: problems are tagged in place, the
\* indices of the accepted ones are appended to filtered, and an exception
\* ends the loop with what was tagged so far
RECURSIVE filter_loop(_, _, _, _)
filter_loop(st, i, eid, sname) ==
    IF i > Len(st.problems) THEN st
    ELSE LET tag == tag_of(st.problems[i], eid, sname)
         IN  IF tag = Raise THEN [st EXCEPT !.raised = TRUE]
             ELSE IF tag = NoMatch THEN filter_loop(st, i + 1, eid, sname)
             ELSE filter_loop(
                    [st EXCEPT !.problems[i].relevance = tag,
                               !.filtered = Append(@, i)],
                    i + 1, eid, sname)

\* _filter_problems_by_entity / _filter_problems_by_name as called by
\* get_problems_for_service
filter_problems(problems, eid, sname) ==
    filter_loop([problems |-> problems, filtered |-> <<>>, raised |-> FALSE],
                1, eid, sname)

----------------------------------------------------------------------------
(* categorize_problems *)

Buckets == {"critical", "important", "related", "resolved"}

\* the if/elif chain of categorize_problems (lines 241-252) for one problem
bucket_of_critical_first(problem) ==
    LET status == py_upper(py_get(problem, "status", EmptyStr))
        severity == py_upper(py_get(problem, "severityLevel", EmptyStr))
        relevance == py_get(problem, "relevance", UnknownTag)
    IN  IF status = Raise \/ severity = Raise THEN "raise"
        ELSE IF relevance = RootCauseTag \/ severity \in {ERROR, CUSTOM_ALERT} THEN "critical"
        ELSE IF status = RESOLVED THEN "resolved"
        ELSE IF relevance = DirectlyImpactedTag THEN "important"
        ELSE "related"

bucket_of(problem) ==
    LET status == py_upper(py_get(problem, "status", EmptyStr))
        severity == py_upper(py_get(problem, "severityLevel", EmptyStr))
        relevance == py_get(problem, "relevance", UnknownTag)
    IN  IF status = Raise \/ severity = Raise THEN "raise"
        ELSE IF status = RESOLVED THEN "resolved"
        ELSE IF relevance = RootCauseTag \/ severity \in {ERROR, CUSTOM_ALERT} THEN "critical"
        ELSE IF relevance = DirectlyImpactedTag THEN "important"
        ELSE "related"

\* the loop of categorize_problems from problem i on; cat maps each bucket to
\* the indices appended to it so far
RECURSIVE categorize_loop(_, _, _)
categorize_loop(problems, i, cat) ==
    IF i > Len(problems) THEN cat
    ELSE LET b == bucket_of(problems[i])
         IN  IF b = "raise" THEN [cat EXCEPT !.raised = TRUE]
             ELSE categorize_loop(problems, i + 1, [cat EXCEPT ![b] = Append(@, i)])

categorize_problems(problems) ==
    categorize_loop(problems, 1,
        [critical |-> <<>>, important |-> <<>>, related |-> <<>>, resolved |-> <<>>,
         raised |-> FALSE])

----------------------------------------------------------------------------
(* Characters, str methods and the regular-expression primitives that     *)
(* src/prompt_handler/intent_parser.py uses                               *)

Digits == {"0","1","2","3","4","5","6","7","8","9"}
Letters == {LowerCase[i] : i \in 1..Len(LowerCase)} \cup {UpperCase[i] : i \in 1..Len(UpperCase)}
\* \w, the class that decides \b
WordChars == Letters \cup Digits \cup {"_"}
\* [a-zA-Z0-9\-_.]
NameChars == Letters \cup Digits \cup {"-", "_", "."}
\* [a-zA-Z0-9\-_]
TokenChars == Letters \cup Digits \cup {"-", "_"}
\* \s
SpaceChars == {" ", "\t", "\n", "\r"}
\* [:\s]
ColonSpaceChars == SpaceChars \cup {":"}
\* ["\']
QuoteChars == {"\"", "'"}
\* [-_]
DashChars == {"-", "_"}

least(S) == CHOOSE i \in S : \A j \in S : i <= j
greatest(S) == CHOOSE i \in S : \A j \in S : i >= j

\* str.strip() on a character sequence
strip_chars(cs) ==
    LET keep == {i \in 1..Len(cs) : cs[i] \notin SpaceChars}
    IN  IF keep = {} THEN <<>> ELSE SubSeq(cs, least(keep), greatest(keep))

\* v.strip(): AttributeError unless v is a str
py_strip(v) == IF v.t = "str" THEN JStr(strip_chars(v.s)) ELSE Raise

\* str.startswith(prefix)
startswith(cs, prefix) ==
    Len(prefix) <= Len(cs) /\ SubSeq(cs, 1, Len(prefix)) = prefix

\* A position g in 0..Len(cs) stands between cs[g] and cs[g+1].
\* the literal lit occurs at position g
lit_at(cs, g, lit) ==
    g + Len(lit) <= Len(cs) /\ SubSeq(cs, g + 1, g + Len(lit)) = lit

\* where the longest run of characters of cls that starts at g ends
run_end(cs, g, cls) ==
    CHOOSE q \in g..Len(cs) :
        /\ \A j \in (g + 1)..q : cs[j] \in cls
        /\ q = Len(cs) \/ cs[q + 1] \notin cls

\* \b at position g
word_boundary(cs, g) ==
    (g > 0 /\ cs[g] \in WordChars) # (g < Len(cs) /\ cs[g + 1] \in WordChars)

\* re.search: the match at the leftmost position that has one; at[g] is the
\* captured text of the match that starts at position g, None when there
\* is none
re_search(at) ==
    LET hits == {g \in DOMAIN at : at[g] # JNull}
    IN  IF hits = {} THEN JNull ELSE at[least(hits)]

\* (?:a|b|...): the first alternative, in order, that matches; at[k] is the
\* captured text of the match with the k-th alternative
first_alt(at) ==
    LET hits == {k \in DOMAIN at : at[k] # JNull}
    IN  IF hits = {} THEN JNull ELSE at[least(hits)]

\* ([cls]+)\b at g: the longest run of cls from g that ends at a \b
\* (the regex engine gives characters back until \b holds); 0 when none
run_to_boundary(cs, g, cls) ==
    LET ends == {e \in (g + 1)..run_end(cs, g, cls) : word_boundary(cs, e)}
    IN  IF ends = {} THEN 0 ELSE greatest(ends)

----------------------------------------------------------------------------
(* The fallback tier of the intent parser                                 *)
(* (src/prompt_handler/intent_parser.py, lines 182-356)                   *)

check_abnormality == JStr(<<"c","h","e","c","k","_","a","b","n","o","r","m","a","l","i","t","y">>)
list_services == JStr(<<"l","i","s","t","_","s","e","r","v","i","c","e","s">>)
service_details == JStr(<<"s","e","r","v","i","c","e","_","d","e","t","a","i","l","s">>)
metrics_analysis == JStr(<<"m","e","t","r","i","c","s","_","a","n","a","l","y","s","i","s">>)
compare_services == JStr(<<"c","o","m","p","a","r","e","_","s","e","r","v","i","c","e","s">>)
troubleshoot == JStr(<<"t","r","o","u","b","l","e","s","h","o","o","t">>)
general_question == JStr(<<"g","e","n","e","r","a","l","_","q","u","e","s","t","i","o","n">>)
DefaultTimeframe == JStr(<<"2","h">>)

\* lines 217-247, in the order of the dict
intent_keywords ==
    <<
      [intent |-> JStr(<<"c","h","e","c","k","_","a","b","n","o","r","m","a","l","i","t","y">>),
       keywords |-> <<
            <<"c","h","e","c","k">>,
            <<"s","t","a","t","u","s">>,
            <<"h","e","a","l","t","h">>,
            <<"i","s","s","u","e">>,
            <<"p","r","o","b","l","e","m">>,
            <<"e","r","r","o","r">>,
            <<"a","l","e","r","t">>,
            <<"w","r","o","n","g">>,
            <<"f","a","i","l","i","n","g">>,
            <<"d","o","w","n">>,
            <<"b","r","o","k","e","n">>,
            <<"n","o","t"," ","w","o","r","k","i","n","g">>,
            <<"a","b","n","o","r","m","a","l">>,
            <<"a","n","o","m","a","l","y">>,
            <<"i","n","v","e","s","t","i","g","a","t","e">>,
            <<"l","o","o","k"," ","i","n","t","o">>,
            <<"w","h","a","t","s"," ","u","p"," ","w","i","t","h">>,
            <<"h","o","w"," ","i","s">>,
            <<"h","o","w"," ","a","r","e">>,
            <<"h","a","p","p","e","n","i","n","g"," ","w","i","t","h">>,
            <<"g","o","i","n","g"," ","o","n">>>>],
      [intent |-> JStr(<<"l","i","s","t","_","s","e","r","v","i","c","e","s">>),
       keywords |-> <<
            <<"l","i","s","t">>,
            <<"s","h","o","w"," ","a","l","l">>,
            <<"s","h","o","w"," ","m","e">>,
            <<"g","e","t"," ","a","l","l">>,
            <<"w","h","a","t"," ","s","e","r","v","i","c","e","s">>,
            <<"a","v","a","i","l","a","b","l","e"," ","s","e","r","v","i","c","e","s">>,
            <<"w","h","i","c","h"," ","s","e","r","v","i","c","e","s">>,
            <<"a","l","l"," ","s","e","r","v","i","c","e","s">>,
            <<"w","h","a","t"," ","d","o"," ","w","e"," ","h","a","v","e">>,
            <<"w","h","a","t"," ","a","p","p","l","i","c","a","t","i","o","n","s">>,
            <<"s","h","o","w"," ","s","e","r","v","i","c","e","s">>>>],
      [intent |-> JStr(<<"s","e","r","v","i","c","e","_","d","e","t","a","i","l","s">>),
       keywords |-> <<
            <<"d","e","t","a","i","l","s"," ","a","b","o","u","t">>,
            <<"i","n","f","o"," ","a","b","o","u","t">>,
            <<"i","n","f","o","r","m","a","t","i","o","n"," ","o","n">>,
            <<"t","e","l","l"," ","m","e"," ","a","b","o","u","t">>,
            <<"w","h","a","t"," ","i","s">>,
            <<"d","e","s","c","r","i","b","e">>,
            <<"e","x","p","l","a","i","n">>,
            <<"m","o","r","e"," ","a","b","o","u","t">>>>],
      [intent |-> JStr(<<"m","e","t","r","i","c","s","_","a","n","a","l","y","s","i","s">>),
       keywords |-> <<
            <<"m","e","t","r","i","c","s">>,
            <<"p","e","r","f","o","r","m","a","n","c","e">>,
            <<"s","t","a","t","s">>,
            <<"s","t","a","t","i","s","t","i","c","s">>,
            <<"k","p","i">>,
            <<"h","o","w"," ","f","a","s","t">>,
            <<"r","e","s","p","o","n","s","e"," ","t","i","m","e">>,
            <<"l","a","t","e","n","c","y">>,
            <<"t","h","r","o","u","g","h","p","u","t">>,
            <<"c","p","u">>,
            <<"m","e","m","o","r","y">>,
            <<"d","i","s","k">>,
            <<"a","n","a","l","y","z","e">>,
            <<"a","n","a","l","y","s","i","s">>>>],
      [intent |-> JStr(<<"c","o","m","p","a","r","e","_","s","e","r","v","i","c","e","s">>),
       keywords |-> <<
            <<"c","o","m","p","a","r","e">>,
            <<"c","o","m","p","a","r","i","s","o","n">>,
            <<"v","e","r","s","u","s">>,
            <<"v","s">>,
            <<"d","i","f","f","e","r","e","n","c","e"," ","b","e","t","w","e","e","n">>,
            <<"w","h","i","c","h"," ","i","s"," ","b","e","t","t","e","r">>,
            <<"a","g","a","i","n","s","t">>,
            <<"r","e","l","a","t","i","v","e"," ","t","o">>>>],
      [intent |-> JStr(<<"t","r","o","u","b","l","e","s","h","o","o","t">>),
       keywords |-> <<
            <<"t","r","o","u","b","l","e","s","h","o","o","t">>,
            <<"d","i","a","g","n","o","s","e">>,
            <<"d","e","b","u","g">>,
            <<"f","i","x">>,
            <<"s","o","l","v","e">>,
            <<"w","h","y"," ","i","s">>,
            <<"r","o","o","t"," ","c","a","u","s","e">>,
            <<"r","e","a","s","o","n"," ","f","o","r">>,
            <<"c","a","u","s","i","n","g">>,
            <<"s","l","o","w">>,
            <<"h","e","l","p"," ","w","i","t","h">>,
            <<"f","i","g","u","r","e"," ","o","u","t">>>>]>>

\* line 252: the number of keywords of intent_keywords[i] that text contains
keyword_score(text, i) ==
    Cardinality({k \in 1..Len(intent_keywords[i].keywords) :
                    contains(text, intent_keywords[i].keywords[k])})

\* _detect_intent_type_flexible, with max() taking the last of the highest
\* scores; an error in that code
detect_intent_type_last_max(text) ==
    LET scored == {i \in 1..Len(intent_keywords) : keyword_score(text, i) > 0}
        best == {i \in scored : \A j \in scored : keyword_score(text, j) <= keyword_score(text, i)}
    IN  IF scored = {} THEN general_question
        ELSE intent_keywords[greatest(best)].intent

\* _detect_intent_type_flexible (lines 212-260): max(scores, key=scores.get)
\* returns the first key, in the order the keys were inserted, whose score
\* is the highest
detect_intent_type_flexible(text) ==
    LET scored == {i \in 1..Len(intent_keywords) : keyword_score(text, i) > 0}
        best == {i \in scored : \A j \in scored : keyword_score(text, j) <= keyword_score(text, i)}
    IN  IF scored = {} THEN general_question
        ELSE intent_keywords[least(best)].intent

\* \b<kw>[:\s]+([a-zA-Z0-9\-_.]+) at position g: the captured name
keyword_then_name_at(cs, g, kw) ==
    IF word_boundary(cs, g) /\ lit_at(cs, g, kw)
    THEN LET a == g + Len(kw)
             b == run_end(cs, a, ColonSpaceChars)
             e == run_end(cs, b, NameChars)
         IN  IF b > a /\ e > b THEN JStr(SubSeq(cs, b + 1, e)) ELSE JNull
    ELSE JNull

\* re.search(r'\b(?:kw1|kw2)[:\s]+([a-zA-Z0-9\-_.]+)', text) (lines 267, 272, 277)
search_keyword_then_name(cs, kws) ==
    re_search([g \in 0..Len(cs) |->
        first_alt([k \in 1..Len(kws) |-> keyword_then_name_at(cs, g, kws[k])])])

\* ([a-zA-Z0-9\-_.]+)\s+service\b at position g (line 281)
name_then_service_at(cs, g) ==
    LET e == run_end(cs, g, NameChars)
        w == run_end(cs, e, SpaceChars)
    IN  IF e > g /\ w > e /\ lit_at(cs, w, <<"s","e","r","v","i","c","e">>) /\ word_boundary(cs, w + 7)
        THEN JStr(SubSeq(cs, g + 1, e)) ELSE JNull

\* ["\']([a-zA-Z0-9\-_.]+)["\'] at position g (line 286)
quoted_name_at(cs, g) ==
    IF g < Len(cs) /\ cs[g + 1] \in QuoteChars
    THEN LET e == run_end(cs, g + 1, NameChars)
         IN  IF e > g + 1 /\ e < Len(cs) /\ cs[e + 1] \in QuoteChars
             THEN JStr(SubSeq(cs, g + 2, e)) ELSE JNull
    ELSE JNull

\* line 292
ServiceSuffixes ==
    <<<<"a","p","i">>, <<"s","e","r","v","i","c","e">>, <<"c","o","n","t","r","o","l","l","e","r">>, <<"b","a","c","k","e","n","d">>, <<"f","r","o","n","t","e","n","d">>, <<"g","a","t","e","w","a","y">>, <<"p","r","o","x","y">>>>
\* line 293
ServicePrefixes == <<<<"a","p","i">>, <<"s","e","r","v","i","c","e">>, <<"c","o","n","t","r","o","l","l","e","r">>>>

\* \b([a-zA-Z0-9\-_]+(?:api|service|...))\b at position g (line 292): the
\* group takes the longest run first and gives characters back until a
\* suffix and a \b follow
suffixed_name_at(cs, g) ==
    IF ~word_boundary(cs, g) THEN JNull
    ELSE LET ok(m, k) == /\ lit_at(cs, m, ServiceSuffixes[k])
                         /\ word_boundary(cs, m + Len(ServiceSuffixes[k]))
             stems == {m \in (g + 1)..run_end(cs, g, TokenChars) :
                          \E k \in 1..Len(ServiceSuffixes) : ok(m, k)}
         IN  IF stems = {} THEN JNull
             ELSE LET m == greatest(stems)
                      k == least({j \in 1..Len(ServiceSuffixes) : ok(m, j)})
                  IN  JStr(SubSeq(cs, g + 1, m + Len(ServiceSuffixes[k])))

\* \b<prefix>[-_]([a-zA-Z0-9\-_]+)\b at position g (line 293)
prefixed_name_at(cs, g, prefix) ==
    LET a == g + Len(prefix)
    IN  IF /\ word_boundary(cs, g)
           /\ lit_at(cs, g, prefix)
           /\ a < Len(cs) /\ cs[a + 1] \in DashChars
           /\ run_to_boundary(cs, a + 1, TokenChars) > 0
        THEN JStr(SubSeq(cs, a + 2, run_to_boundary(cs, a + 1, TokenChars)))
        ELSE JNull

\* line 301
action_words ==
    <<<<"c","h","e","c","k">>, <<"a","n","a","l","y","z","e">>, <<"m","o","n","i","t","o","r">>, <<"d","e","b","u","g">>, <<"f","i","x">>, <<"l","o","o","k">>, <<"s","e","e">>, <<"s","h","o","w">>>>
\* line 308
common_words ==
    {<<"s","e","r","v","i","c","e">>, <<"s","e","r","v","i","c","e","s">>, <<"s","t","a","t","u","s">>, <<"h","e","a","l","t","h">>, <<"m","e","t","r","i","c","s">>, <<"i","s","s","u","e","s">>}

\* \b<action>\s+(?:the\s+)?([a-zA-Z0-9\-_.]+)\b at position g (line 303):
\* the optional "the" is taken when the rest then matches, else skipped
action_then_name_at(cs, g, action) ==
    IF ~(word_boundary(cs, g) /\ lit_at(cs, g, action)) THEN JNull
    ELSE LET a == g + Len(action)
             w == run_end(cs, a, SpaceChars)
             t == run_end(cs, w + 3, SpaceChars)
             with_the == /\ lit_at(cs, w, <<"t","h","e">>)
                         /\ t > w + 3
                         /\ run_to_boundary(cs, t, NameChars) > 0
         IN  IF w = a THEN JNull
             ELSE IF with_the
             THEN JStr(SubSeq(cs, t + 1, run_to_boundary(cs, t, NameChars)))
             ELSE IF run_to_boundary(cs, w, NameChars) > 0
             THEN JStr(SubSeq(cs, w + 1, run_to_boundary(cs, w, NameChars)))
             ELSE JNull

\* lines 302-309 from action_words[k] on
RECURSIVE after_action_words(_, _)
after_action_words(text, k) ==
    IF k > Len(action_words) THEN JNull
    ELSE LET candidate == re_search([g \in 0..Len(text) |->
                                action_then_name_at(text, g, action_words[k])])
         IN  IF candidate # JNull /\ candidate.s \notin common_words
             THEN candidate
             ELSE after_action_words(text, k + 1)

\* _extract_service_name_flexible (lines 262-311): the first pattern that
\* matches decides
extract_service_name_flexible(text) ==
    LET m1 == search_keyword_then_name(text, <<<<"f","o","r">>>>)
        m2 == search_keyword_then_name(text, <<<<"o","f">>, <<"a","b","o","u","t">>>>)
        m3 == search_keyword_then_name(text, <<<<"s","e","r","v","i","c","e">>>>)
        m3b == re_search([g \in 0..Len(text) |-> name_then_service_at(text, g)])
        m4 == re_search([g \in 0..Len(text) |-> quoted_name_at(text, g)])
        m5 == re_search([g \in 0..Len(text) |-> suffixed_name_at(text, g)])
        m5b == re_search([g \in 0..Len(text) |->
                  first_alt([k \in 1..Len(ServicePrefixes) |->
                      prefixed_name_at(text, g, ServicePrefixes[k])])])
    IN  IF m1 # JNull THEN m1
        ELSE IF m2 # JNull THEN m2
        ELSE IF m3 # JNull THEN m3
        ELSE IF m3b # JNull THEN m3b
        ELSE IF m4 # JNull THEN m4
        ELSE IF m5 # JNull THEN m5
        ELSE IF m5b # JNull THEN m5b
        ELSE after_action_words(text, 1)

\* line 318
UnitLetters == {"m", "h", "d", "w"}
\* lines 324 and 334
UnitWords == <<<<"m","i","n","u","t","e">>, <<"h","o","u","r">>, <<"d","a","y">>, <<"w","e","e","k">>>>
\* line 324
SpanWords == <<<<"l","a","s","t">>, <<"p","a","s","t">>, <<"p","r","e","v","i","o","u","s">>, <<"r","e","c","e","n","t">>>>
\* line 334
SpanWordsAfterIn == <<<<"l","a","s","t">>, <<"p","a","s","t">>>>

\* \b(\d+)\s*([mhdw])\b at position g (line 318): digits and unit letter
explicit_timeframe_at(cs, g) ==
    LET d == run_end(cs, g, Digits)
        w == run_end(cs, d, SpaceChars)
    IN  IF /\ word_boundary(cs, g) /\ d > g
           /\ w < Len(cs) /\ cs[w + 1] \in UnitLetters
           /\ word_boundary(cs, w + 1)
        THEN JStr(SubSeq(cs, g + 1, d) \o <<cs[w + 1]>>)
        ELSE JNull

\* (\d+)\s*(minute|hour|day|week)s?\b at position g (lines 324, 334)
count_then_unit_at(cs, g, unit) ==
    LET d == run_end(cs, g, Digits)
        w == run_end(cs, d, SpaceChars)
        u == w + Len(unit)
    IN  IF /\ d > g
           /\ lit_at(cs, w, unit)
           /\ \/ (lit_at(cs, u, <<"s">>) /\ word_boundary(cs, u + 1))
              \/ word_boundary(cs, u)
        THEN JStr(SubSeq(cs, g + 1, d) \o <<unit[1]>>)
        ELSE JNull

\* \b(?:last|past|previous|recent)\s+(\d+)\s*(minute|...)s?\b at g (line 324)
span_timeframe_at(cs, g, span) ==
    LET a == g + Len(span)
        w == run_end(cs, a, SpaceChars)
    IN  IF word_boundary(cs, g) /\ lit_at(cs, g, span) /\ w > a
        THEN first_alt([k \in 1..Len(UnitWords) |-> count_then_unit_at(cs, w, UnitWords[k])])
        ELSE JNull

\* \bin\s+the\s+(?:last|past)\s+(\d+)\s*(minute|...)s?\b at g (line 334)
in_the_span_timeframe_at(cs, g) ==
    LET w1 == run_end(cs, g + 2, SpaceChars)
        w2 == run_end(cs, w1 + 3, SpaceChars)
    IN  IF /\ word_boundary(cs, g) /\ lit_at(cs, g, <<"i","n">>) /\ w1 > g + 2
           /\ lit_at(cs, w1, <<"t","h","e">>) /\ w2 > w1 + 3
        THEN first_alt([s \in 1..Len(SpanWordsAfterIn) |->
                 LET a == w2 + Len(SpanWordsAfterIn[s])
                     w == run_end(cs, a, SpaceChars)
                 IN  IF lit_at(cs, w2, SpanWordsAfterIn[s]) /\ w > a
                     THEN first_alt([k \in 1..Len(UnitWords) |-> count_then_unit_at(cs, w, UnitWords[k])])
                     ELSE JNull])
        ELSE JNull

\* lines 343-350, in the order of the dict
time_keywords ==
    <<[keyword |-> <<"t","o","d","a","y">>, timeframe |-> JStr(<<"2","4","h">>)],
      [keyword |-> <<"y","e","s","t","e","r","d","a","y">>, timeframe |-> JStr(<<"4","8","h">>)],
      [keyword |-> <<"t","h","i","s"," ","w","e","e","k">>, timeframe |-> JStr(<<"7","d">>)],
      [keyword |-> <<"t","h","i","s"," ","m","o","n","t","h">>, timeframe |-> JStr(<<"3","0","d">>)],
      [keyword |-> <<"r","e","c","e","n","t">>, timeframe |-> JStr(<<"2","h">>)],
      [keyword |-> <<"r","e","c","e","n","t","l","y">>, timeframe |-> JStr(<<"2","h">>)]>>

\* _extract_timeframe_flexible with one day as the timeframe of a text that
\* names none; an error in that code
extract_timeframe_default_day(text) ==
    LET m1 == re_search([g \in 0..Len(text) |-> explicit_timeframe_at(text, g)])
        m2 == re_search([g \in 0..Len(text) |->
                  first_alt([k \in 1..Len(SpanWords) |->
                      span_timeframe_at(text, g, SpanWords[k])])])
        m3 == re_search([g \in 0..Len(text) |-> in_the_span_timeframe_at(text, g)])
        hits == {k \in 1..Len(time_keywords) : contains(text, time_keywords[k].keyword)}
    IN  IF m1 # JNull THEN m1
        ELSE IF m2 # JNull THEN m2
        ELSE IF m3 # JNull THEN m3
        ELSE IF hits # {} THEN time_keywords[least(hits)].timeframe
        ELSE JStr(<<"1","d">>)

\* _extract_timeframe_flexible with the keywords looked up before the
\* patterns; an error in that code
extract_timeframe_keywords_first(text) ==
    LET m1 == re_search([g \in 0..Len(text) |-> explicit_timeframe_at(text, g)])
        m2 == re_search([g \in 0..Len(text) |->
                  first_alt([k \in 1..Len(SpanWords) |->
                      span_timeframe_at(text, g, SpanWords[k])])])
        m3 == re_search([g \in 0..Len(text) |-> in_the_span_timeframe_at(text, g)])
        hits == {k \in 1..Len(time_keywords) : contains(text, time_keywords[k].keyword)}
    IN  IF hits # {} THEN time_keywords[least(hits)].timeframe
        ELSE IF m1 # JNull THEN m1
        ELSE IF m2 # JNull THEN m2
        ELSE IF m3 # JNull THEN m3
        ELSE DefaultTimeframe

\* _extract_timeframe_flexible (lines 313-356)
extract_timeframe_flexible(text) ==
    LET m1 == re_search([g \in 0..Len(text) |-> explicit_timeframe_at(text, g)])
        m2 == re_search([g \in 0..Len(text) |->
                  first_alt([k \in 1..Len(SpanWords) |->
                      span_timeframe_at(text, g, SpanWords[k])])])
        m3 == re_search([g \in 0..Len(text) |-> in_the_span_timeframe_at(text, g)])
        hits == {k \in 1..Len(time_keywords) : contains(text, time_keywords[k].keyword)}
    IN  IF m1 # JNull THEN m1
        ELSE IF m2 # JNull THEN m2
        ELSE IF m3 # JNull THEN m3
        ELSE IF hits # {} THEN time_keywords[least(hits)].timeframe
        ELSE DefaultTimeframe

\* an intent dict
Intent(type, service, timeframe, additional_context, raw_query) ==
    [t |-> "obj", type |-> type, service_name |-> service, timeframe |-> timeframe,
     additional_context |-> additional_context, raw_query |-> raw_query,
     is_followup |-> Absent]

\* _parse_with_patterns (lines 182-210); text is a str
parse_with_patterns(text) ==
    LET text_lower == lower_chars(text.s)
        intent_type == detect_intent_type_flexible(text_lower)
    IN  Intent(IF truthy(intent_type) THEN intent_type ELSE general_question,
               extract_service_name_flexible(text_lower),
               extract_timeframe_flexible(text_lower),
               EmptyStr, text)

----------------------------------------------------------------------------
(* The backend tier of the ai_intent parser and parse                        *)
(* (src/prompt_handler/intent_parser.py, lines 27-180)                    *)

JNum(n) == [t |-> "num", n |-> n]
JTrue == [t |-> "bool", b |-> TRUE]

\* a dict as json.loads builds it from the backend's reply; a key the reply
\* does not hold is Absent
JsonObject(intent_type, service, timeframe, additional_context) ==
    [t |-> "obj", intent_type |-> intent_type, service_name |-> service,
     timeframe |-> timeframe, additional_context |-> additional_context]

\* The JSON documents a backend reply may carry, each with the value
\* json.loads returns for it
DocFull ==
    <<"{","\"","i","n","t","e","n","t","_","t","y","p","e","\"",":","\"","c","h","e","c","k","_","a","b","n","o","r","m","a","l","i","t","y","\"",",","\"","s","e","r","v","i","c","e","_","n","a","m","e","\"",":","\"","c","a","r","t","-","a","p","i","\"",",","\"","t","i","m","e","f","r","a","m","e","\"",":","\"","3","0","m","\"",",","\"","a","d","d","i","t","i","o","n","a","l","_","c","o","n","t","e","x","t","\"",":","\"","\"","}">>
DocNoService ==
    <<"{","\"","i","n","t","e","n","t","_","t","y","p","e","\"",":","\"","c","h","e","c","k","_","a","b","n","o","r","m","a","l","i","t","y","\"",",","\"","s","e","r","v","i","c","e","_","n","a","m","e","\"",":","n","u","l","l",",","\"","t","i","m","e","f","r","a","m","e","\"",":","\"","2","h","\"",",","\"","a","d","d","i","t","i","o","n","a","l","_","c","o","n","t","e","x","t","\"",":","\"","\"","}">>
DocNoType == <<"{","\"","s","e","r","v","i","c","e","_","n","a","m","e","\"",":","\"","c","a","r","t","-","a","p","i","\"",",","\"","t","i","m","e","f","r","a","m","e","\"",":","\"","7","d","\"","}">>
DocEmptyObject == <<"{","}">>
DocList == <<"[","\"","c","h","e","c","k","_","a","b","n","o","r","m","a","l","i","t","y","\"","]">>
DocNull == <<"n","u","l","l">>
DocString == <<"\"","c","h","e","c","k","_","a","b","n","o","r","m","a","l","i","t","y","\"">>
DocNumber == <<"7">>
DocEmptyFields == <<"{","\"","i","n","t","e","n","t","_","t","y","p","e","\"",":","\"","l","i","s","t","_","s","e","r","v","i","c","e","s","\"",",","\"","s","e","r","v","i","c","e","_","n","a","m","e","\"",":","\"","\"",",","\"","t","i","m","e","f","r","a","m","e","\"",":","\"","\"","}">>
DocLongTimeframe == <<"{","\"","i","n","t","e","n","t","_","t","y","p","e","\"",":","\"","c","h","e","c","k","_","a","b","n","o","r","m","a","l","i","t","y","\"",",","\"","s","e","r","v","i","c","e","_","n","a","m","e","\"",":","\"","c","a","r","t","-","a","p","i","\"",",","\"","t","i","m","e","f","r","a","m","e","\"",":","\"","l","a","s","t"," ","2"," ","h","o","u","r","s","\"","}">>
json_documents ==
    <<[text |-> DocFull,
       value |-> JsonObject(check_abnormality, JStr(<<"c","a","r","t","-","a","p","i">>), JStr(<<"3","0","m">>), EmptyStr)],
      [text |-> DocNoService,
       value |-> JsonObject(check_abnormality, JNull, JStr(<<"2","h">>), EmptyStr)],
      [text |-> DocNoType,
       value |-> JsonObject(Absent, JStr(<<"c","a","r","t","-","a","p","i">>), JStr(<<"7","d">>), Absent)],
      [text |-> DocEmptyObject, value |-> JsonObject(Absent, Absent, Absent, Absent)],
      [text |-> DocEmptyFields, value |-> JsonObject(list_services, EmptyStr, EmptyStr, Absent)],
      [text |-> DocLongTimeframe,
       value |-> JsonObject(check_abnormality, JStr(<<"c","a","r","t","-","a","p","i">>), JStr(<<"l","a","s","t"," ","2"," ","h","o","u","r","s">>), Absent)],
      [text |-> DocList, value |-> JList(<<check_abnormality>>)],
      [text |-> DocNull, value |-> JNull],
      [text |-> DocString, value |-> check_abnormality],
      [text |-> DocNumber, value |-> JNum(7)]>>

\* json.loads (line 112): white space around the document is skipped; a
\* text that is not a JSON document raises JSONDecodeError
json_loads(cs) ==
    LET hits == {k \in 1..Len(json_documents) : json_documents[k].text = strip_chars(cs)}
    IN  IF hits = {} THEN Raise ELSE json_documents[least(hits)].value

\* the backquote character, which a TLA+ string cannot hold
Backquote == "BACKQUOTE"
\* the fence mark of line 107, three backquotes
FenceMark == <<Backquote, Backquote, Backquote>>
\* the fence mark of line 109, three backquotes and json
JsonFenceMark == FenceMark \o <<"j","s","o","n">>

\* line 109: re.sub of JsonFenceMark and the white space after it, at the start
strip_fence_open(cs) ==
    IF startswith(cs, JsonFenceMark)
    THEN SubSeq(cs, run_end(cs, Len(JsonFenceMark), SpaceChars) + 1, Len(cs))
    ELSE cs

\* line 110: re.sub of FenceMark and the white space after it, at the end
strip_fence_close(cs) ==
    LET hits == {g \in 0..Len(cs) :
                    /\ lit_at(cs, g, FenceMark)
                    /\ run_end(cs, g + Len(FenceMark), SpaceChars) = Len(cs)}
    IN  IF hits = {} THEN cs ELSE SubSeq(cs, 1, least(hits))

\* lines 106-110
clean_response(reply) ==
    LET reply_clean == strip_chars(reply)
    IN  IF startswith(reply_clean, FenceMark)
        THEN strip_fence_close(strip_fence_open(reply_clean))
        ELSE reply_clean

\* _parse_with_ai that reads a JSON value that is not a dict as a dict without
\* keys; an error in that code
parse_with_ai_any_json(query, reply) ==
    IF reply = Raise THEN JNull
    ELSE LET intent_data == json_loads(clean_response(reply.s))
             data == IF intent_data.t = "obj" THEN intent_data
                     ELSE JsonObject(Absent, Absent, Absent, Absent)
         IN  IF intent_data = Raise THEN JNull
             ELSE Intent(py_get(data, "intent_type", general_question),
                         py_get(data, "service_name", JNull),
                         py_get(data, "timeframe", DefaultTimeframe),
                         py_get(data, "additional_context", EmptyStr),
                         query)

\* _parse_with_ai (lines 57-125) on user_input = query; reply is what _call_ai returned, or
\* Raise when it raised. Every exception ends in `return None` (line 125):
\* the backend's, JSONDecodeError, and the AttributeError of .get on a
\* JSON value that is not a dict.
parse_with_ai(query, reply) ==
    IF reply = Raise THEN JNull
    ELSE LET intent_data == json_loads(clean_response(reply.s))
         IN  IF intent_data = Raise THEN JNull
             ELSE IF intent_data.t # "obj" THEN JNull
             ELSE Intent(py_get(intent_data, "intent_type", general_question),
                         py_get(intent_data, "service_name", JNull),
                         py_get(intent_data, "timeframe", DefaultTimeframe),
                         py_get(intent_data, "additional_context", EmptyStr),
                         query)

\* the providers _call_ai knows (lines 134-177) reach a backend; here one
\* of them, and the provider name of a generator that has no backend
\* (src/llm/response_generator.py, lines 59-112)
Providers == {"gemini", "fallback"}

\* _call_ai (lines 127-180): reply is what the backend does, a text or
\* Raise; any other provider name raises (line 180)
call_ai(provider_name, reply) ==
    IF provider_name = "fallback" THEN Raise
    ELSE IF reply = Raise THEN Raise
    ELSE py_strip(reply)

\* line 37
is_blank(query) == ~truthy(query) \/ ~truthy(py_strip(query))

\* parse that hands a blank input to the tiers; an error in that code
parse_blank_input(query, ai_configured, reply) ==
    LET query_clean == py_strip(query)
        ai_intent == IF ai_configured THEN parse_with_ai(query_clean, reply) ELSE JNull
    IN  IF truthy(ai_intent) THEN ai_intent ELSE parse_with_patterns(query_clean)

\* parse (lines 27-55); reply is the outcome of _call_ai, used when the
\* backend tier runs
parse(query, ai_configured, reply) ==
    IF is_blank(query) THEN JNull
    ELSE LET query_clean == py_strip(query)
             ai_intent == IF ai_configured THEN parse_with_ai(query_clean, reply)
                       ELSE JNull
         IN  IF truthy(ai_intent) THEN ai_intent ELSE parse_with_patterns(query_clean)

----------------------------------------------------------------------------
(* The conversation context and one turn of the chat (src/main.py)        *)

\* lines 48-52 and 395-399
InitialContext ==
    [last_service |-> JNull, last_intent |-> JNull, last_timeframe |-> DefaultTimeframe]

\* apply_context that inherits the service and does not mark the intent as
\* a follow-up; an error in that code
apply_context_unmarked(intent_in, context) ==
    LET inherits == /\ ~truthy(intent_in.service_name)
                    /\ truthy(context.last_service)
                    /\ intent_in.type = context.last_intent
        with_service == IF inherits
                        THEN [intent_in EXCEPT !.service_name = context.last_service]
                        ELSE intent_in
    IN  IF (~truthy(with_service.timeframe) \/ with_service.timeframe = DefaultTimeframe)
           /\ truthy(context.last_timeframe)
        THEN [with_service EXCEPT !.timeframe = context.last_timeframe]
        ELSE with_service

\* apply_context that takes the context's timeframe only for an intent
\* that has none, and keeps "2h"; an error in that code
apply_context_keeps_default(intent_in, context) ==
    LET inherits == /\ ~truthy(intent_in.service_name)
                    /\ truthy(context.last_service)
                    /\ intent_in.type = context.last_intent
        with_service == IF inherits
                        THEN [intent_in EXCEPT !.service_name = context.last_service,
                                               !.is_followup = JTrue]
                        ELSE intent_in
    IN  IF ~truthy(with_service.timeframe) /\ truthy(context.last_timeframe)
        THEN [with_service EXCEPT !.timeframe = context.last_timeframe]
        ELSE with_service

\* apply_context that inherits the service whatever the type of the intent;
\* an error in that code
apply_context_any_type(intent_in, context) ==
    LET inherits == /\ ~truthy(intent_in.service_name)
                    /\ truthy(context.last_service)
        with_service == IF inherits
                        THEN [intent_in EXCEPT !.service_name = context.last_service,
                                               !.is_followup = JTrue]
                        ELSE intent_in
    IN  IF (~truthy(with_service.timeframe) \/ with_service.timeframe = DefaultTimeframe)
           /\ truthy(context.last_timeframe)
        THEN [with_service EXCEPT !.timeframe = context.last_timeframe]
        ELSE with_service

\* apply_context (lines 77-93)
apply_context(intent_in, context) ==
    LET inherits == /\ ~truthy(intent_in.service_name)
                    /\ truthy(context.last_service)
                    /\ intent_in.type = context.last_intent
        with_service == IF inherits
                        THEN [intent_in EXCEPT !.service_name = context.last_service,
                                               !.is_followup = JTrue]
                        ELSE intent_in
    IN  IF (~truthy(with_service.timeframe) \/ with_service.timeframe = DefaultTimeframe)
           /\ truthy(context.last_timeframe)
        THEN [with_service EXCEPT !.timeframe = context.last_timeframe]
        ELSE with_service

\* update_context writing every field of the intent, null or not; an error
\* in that code
update_context_overwrites_all(context, intent_in) ==
    [last_service |-> intent_in.service_name,
     last_intent |-> intent_in.type,
     last_timeframe |-> intent_in.timeframe]

\* update_context (lines 68-75)
update_context(context, intent_in) ==
    [last_service |-> IF truthy(intent_in.service_name) THEN intent_in.service_name
                      ELSE context.last_service,
     last_intent |-> IF truthy(intent_in.type) THEN intent_in.type
                     ELSE context.last_intent,
     last_timeframe |-> IF truthy(intent_in.timeframe) THEN intent_in.timeframe
                        ELSE context.last_timeframe]

\* config.MAX_CHAT_HISTORY (src/config/settings.py line 25, read from the
\* environment): the most messages the history keeps
MAX_CHAT_HISTORY == 3

\* a message of the history (lines 56-60)
Message(role, content) == [role |-> role, content |-> content]

\* a text of the history, named by its kind: the user's prompt, the
\* welcome, or one of the answers of process_user_input
Text(kind) == [t |-> "str", kind |-> kind]

\* lines 36-44: the welcome message initialize_session_state starts the
\* history with
WelcomeMessage == Message("assistant", Text("welcome"))

\* add_message keeping the oldest messages of a full history; an error in
\* that code
add_message_keeps_oldest(history, role, content) ==
    LET appended == Append(history, Message(role, content))
    IN  IF Len(appended) > MAX_CHAT_HISTORY
        THEN SubSeq(appended, 1, MAX_CHAT_HISTORY)
        ELSE appended

\* add_message (lines 54-66): append, and beyond MAX_CHAT_HISTORY messages
\* keep the first one and the MAX_CHAT_HISTORY - 1 most recent ones
add_message(history, role, content) ==
    LET appended == Append(history, Message(role, content))
        n == Len(appended)
    IN  IF n > MAX_CHAT_HISTORY
        THEN <<appended[1]>> \o SubSeq(appended, n - (MAX_CHAT_HISTORY - 1) + 1, n)
        ELSE appended

\* the intent types process_user_input sends to handle_check_abnormality
\* (lines 329-336)
CheckTypes == {check_abnormality, service_details, metrics_analysis}

\* What the handler process_user_input routes the intent to may answer
\* (lines 325-354). The monitoring backend decides between the answers of
\* one handler; "error" is the message of the except clause (lines 349-354).
handler_responses(intent_in) ==
    IF intent_in.type \in CheckTypes
    THEN IF ~truthy(intent_in.service_name) THEN {"which_service"}
         ELSE {"service_not_found", "service_analysis", "error"}
    ELSE IF intent_in.type = list_services
    THEN {"service_list", "no_service_list", "error"}
    ELSE IF intent_in.type = general_question THEN {"general_answer"}
    ELSE IF intent_in.type.t = "str" THEN {"under_development"}
    ELSE {"error"}

----------------------------------------------------------------------------
(* Inputs of the parser: what the user types and what the backend replies *)

\* what the user may type
Utterances ==
    {JStr(<<"c","h","e","c","k"," ","o","r","d","e","r","c","o","n","t","r","o","l","l","e","r">>),
     JStr(<<"h","o","w"," ","i","s"," ","i","t"," ","n","o","w","?">>),
     JStr(<<"l","i","s","t"," ","s","e","r","v","i","c","e","s">>),
     JStr(<<" ","C","h","e","c","k"," ","p","a","y","m","e","n","t","-","a","p","i"," ","3","0","m"," ">>),
     JStr(<<"s","t","a","t","u","s"," ","2","h">>),
     JStr(<<"c","o","m","p","a","r","e"," ","a"," ","v","s"," ","b">>),
     JStr(<<"h","e","l","l","o">>),
     JStr(<<" "," "," ">>)}

\* the arguments of parse: what the user may type, the empty str and more
\* queries
ParseInputs ==
    Utterances
    \cup {EmptyStr,
          JStr(<<" ","\t","\n">>),
          JStr(<<"m","e","t","r","i","c","s"," ","f","o","r"," ","c","a","r","t","-","s","e","r","v","i","c","e"," ","t","o","d","a","y">>),
          JStr(<<"d","e","t","a","i","l","s"," ","a","b","o","u","t"," ","d","b",".","p","r","o","d"," ","i","n"," ","t","h","e"," ","l","a","s","t"," ","3"," ","d","a","y","s">>),
          JStr(<<"C","h","e","c","k"," ","l","a","t","e","n","c","y">>),
          JStr(<<"d","e","b","u","g"," ","c","p","u">>),
          JStr(<<"l","i","s","t"," ","c","p","u"," ","a","n","d"," ","m","e","m","o","r","y"," ","s","t","a","t","s">>),
          JStr(<<"w","h","a","t"," ","i","s"," ","s","l","o","w">>),
          JStr(<<"s","h","o","w"," ","m","e"," ","s","t","a","t","u","s"," ","a","n","d"," ","h","e","a","l","t","h">>),
          JStr(<<"c","h","e","c","k"," ","s","t","a","t","u","s"," ","t","h","e","n"," ","c","h","e","c","k"," ","c","a","r","t">>),
          JStr(<<"c","h","e","c","k"," ","h","e","a","l","t","h">>),
          JStr(<<"s","t","a","t","u","s"," ","o","f"," ","c","a","r","t"," ","f","o","r"," ","w","e","b">>),
          JStr(<<"l","o","o","k"," ","a","t"," ","s","e","r","v","i","c","e"," ","c","a","r","t">>),
          JStr(<<"c","a","r","t"," ","s","e","r","v","i","c","e">>),
          JStr(<<"i","s"," ","'","w","e","b","'"," ","u","p">>),
          JStr(<<"a","p","i","_","o","r","d","e","r","s"," ","d","o","w","n">>),
          JStr(<<"m","o","n","i","t","o","r"," ","s","t","a","t","u","s"," ","s","h","o","w"," ","t","h","e"," ","c","a","r","t",".">>),
          JStr(<<"3","0","m"," ","i","n"," ","t","h","e"," ","l","a","s","t"," ","2"," ","h","o","u","r","s"," ","t","o","d","a","y">>),
          JStr(<<"p","a","s","t"," ","3"," ","w","e","e","k","s"," ","r","e","c","e","n","t","l","y">>),
          JStr(<<"y","e","s","t","e","r","d","a","y"," ","t","h","i","s"," ","m","o","n","t","h">>),
          JStr(<<"t","h","i","s"," ","w","e","e","k">>),
          JStr(<<"r","e","c","e","n","t","l","y">>),
          JStr(<<"5"," ","m"," ","a","g","o">>),
          JStr(<<"l","a","s","t"," ","2"," ","m","o","n","t","h","s">>)}

Prose == <<"S","o","r","r","y",","," ","I"," ","c","a","n","n","o","t"," ","h","e","l","p",".">>
JsonFenced(doc) == JsonFenceMark \o <<"\n">> \o doc \o <<"\n">> \o FenceMark
BareFenced(doc) == FenceMark \o <<"\n">> \o doc \o <<"\n">> \o FenceMark
Padded(doc) == <<" ", "\n">> \o doc \o <<"\n">>

\* what the backend may do when it is called: raise, or return a text
BackendReplies ==
    {Raise}
    \cup {JStr(doc) : doc \in {DocFull, DocNoService, DocNoType, DocEmptyObject,
                               DocEmptyFields, DocLongTimeframe, DocList,
                               DocNull, DocString, DocNumber, Prose}}
    \cup {JStr(JsonFenced(DocFull)), JStr(JsonFenced(DocList)), JStr(BareFenced(DocFull)),
          JStr(Padded(DocNoService)), JStr(Padded(DocNull))}

\* what the backend does in the turns of a session: the replies that lead
\* to different intents
TurnReplies ==
    {Raise}
    \cup {JStr(doc) : doc \in {DocFull, DocNoService, DocNoType, DocEmptyFields,
                               DocLongTimeframe, Prose}}

NotCalled == [t |-> "notcalled"]

----------------------------------------------------------------------------
(* Inputs of the correlator: what the monitoring backend may return *)

\* the most problems in one fetched list
MaxProblems == 2
\* the most entity references in one fetched list, over all its problems
MaxEntities == 2

TargetId == JStr(<<"S","1">>)
OtherId == JStr(<<"S","2">>)
TargetName == JStr(<<"P","a","y">>)

Entity(id, name) == [t |-> "obj", entityId |-> id, name |-> name]
IdDict(id) == [t |-> "obj", id |-> id]

\* The entities a problem may refer to. Every value of entityId occurs (a
\* dict with the target id, a dict with another id, missing, null) and every
\* value of name (missing, null, a name that contains the target name in
\* another case, a name the target name contains, an unrelated name).
Entities ==
    {Entity(IdDict(TargetId), JStr(<<"d","b">>)),
     Entity(IdDict(OtherId), JStr(<<"P","A","Y","-","a","p","i">>)),
     Entity(IdDict(OtherId), JStr(<<"p","a">>)),
     Entity(Absent, Absent),
     Entity(JNull, JStr(<<"d","b">>)),
     Entity(IdDict(OtherId), JNull)}

ProblemWith(imp, aff, root) ==
    [t |-> "obj", impactedEntities |-> imp, affectedEntities |-> aff,
     rootCauseEntity |-> root, title |-> Absent, displayName |-> Absent,
     status |-> Absent, severityLevel |-> Absent, relevance |-> Absent]

\* impactedEntities with n entities (the key is missing when there are none)
ImpactedOf(n) == IF n = 0 THEN {Absent} ELSE {JList(l) : l \in [1..n -> Entities]}
\* affectedEntities with n entities (an empty list when there are none)
AffectedOf(n) == {JList(l) : l \in [1..n -> Entities]}

\* The shape of a problem: how many impacted and affected entities it has and
\* whether its rootCauseEntity is an entity ("entity") or is missing or null
\* ("none"); Size is the number of entities it refers to
Shapes ==
    {sh \in [imp : 0..MaxEntities, aff : 0..MaxEntities, root : {"none", "entity"}] :
        sh.imp + sh.aff + (IF sh.root = "entity" THEN 1 ELSE 0) <= MaxEntities}

Size(sh) == sh.imp + sh.aff + (IF sh.root = "entity" THEN 1 ELSE 0)

RECURSIVE TotalSize(_)
TotalSize(shs) == IF shs = <<>> THEN 0 ELSE Size(Head(shs)) + TotalSize(Tail(shs))

\* the problems of one shape
ProblemsShaped(sh) ==
    {ProblemWith(i, a, r) :
        i \in ImpactedOf(sh.imp), a \in AffectedOf(sh.aff),
        r \in IF sh.root = "entity" THEN Entities ELSE {Absent, JNull}}

\* the lists whose problems have the shapes shs, in this order
RECURSIVE ListsShaped(_)
ListsShaped(shs) ==
    IF shs = <<>> THEN {<<>>}
    ELSE {<<p>> \o rest : p \in ProblemsShaped(Head(shs)), rest \in ListsShaped(Tail(shs))}

NoCategories ==
    [critical |-> <<>>, important |-> <<>>, related |-> <<>>, resolved |-> <<>>,
     raised |-> FALSE]

----------------------------------------------------------------------------
(* get_problems_for_service: the filter step, and categorize_problems *)

\* the timeframe utilities take no part in the other runs
TimeframeUnused ==
    /\ timeframe_arg = JNull
    /\ utc_now = 0
    /\ window = NotCalled
    /\ readable = NotCalled

\* the parser and the session take no part in the correlator's runs
SessionUnused ==
    /\ use_ai = FALSE
    /\ provider = "none"
    /\ user_input = EmptyStr
    /\ ai_response = NotCalled
    /\ parsed = JNull
    /\ conversation_context = InitialContext
    /\ context_at_start = InitialContext
    /\ intent = JNull
    /\ response = "none"
    /\ messages = <<>>
    /\ updates = 0
    /\ pc = "unused"

InitCorrelate ==
    /\ SessionUnused
    /\ TimeframeUnused
    /\ entity_id \in {TargetId, JNull}
    /\ service_name = TargetName
    /\ \E n \in 0..MaxProblems : \E shs \in [1..n -> Shapes] :
          /\ TotalSize(shs) <= MaxEntities
          /\ all_problems \in ListsShaped(shs)
    /\ service_problems = <<>>
    /\ corr_pc = "fetched"
    /\ problems_arg = <<>>
    /\ categorized = NoCategories

\* lines 65-66: service_problems = self._filter_problems_by_entity(...)
FilterProblemsByEntity ==
    /\ corr_pc = "fetched"
    /\ truthy(entity_id)
    /\ LET r == filter_problems(all_problems, entity_id, service_name)
       IN  /\ all_problems' = r.problems
           /\ service_problems' = r.filtered
           /\ corr_pc' = IF r.raised THEN "raised" ELSE "returned"
    /\ UNCHANGED <<entity_id, service_name, problems_arg, categorized>>
    /\ UNCHANGED sess_vars
    /\ UNCHANGED time_vars

\* lines 67-68: service_problems = self._filter_problems_by_name(...)
FilterProblemsByName ==
    /\ corr_pc = "fetched"
    /\ ~truthy(entity_id)
    /\ LET r == filter_problems(all_problems, entity_id, service_name)
       IN  /\ all_problems' = r.problems
           /\ service_problems' = r.filtered
           /\ corr_pc' = IF r.raised THEN "raised" ELSE "returned"
    /\ UNCHANGED <<entity_id, service_name, problems_arg, categorized>>
    /\ UNCHANGED sess_vars
    /\ UNCHANGED time_vars

\* categorize_problems applied to the list the filter returned
CategorizeMatched ==
    /\ corr_pc = "returned"
    /\ problems_arg' = [k \in 1..Len(service_problems) |-> all_problems[service_problems[k]]]
    /\ categorized' = categorize_problems(problems_arg')
    /\ corr_pc' = "categorized"
    /\ UNCHANGED <<entity_id, service_name, all_problems, service_problems>>
    /\ UNCHANGED sess_vars
    /\ UNCHANGED time_vars

NextCorrelate == FilterProblemsByEntity \/ FilterProblemsByName \/ CategorizeMatched

SpecCorrelate == InitCorrelate /\ [][NextCorrelate]_vars

----------------------------------------------------------------------------
(* categorize_problems on any list of problems *)

\* status, severityLevel and relevance as the backend and the filters write
\* them: missing, or a str in any case
StatusValues ==
    {Absent, JStr(<<"O","P","E","N">>), RESOLVED, JStr(<<"R","e","s","o","l","v","e","d">>)}
SeverityValues ==
    {Absent, ERROR, JStr(<<"c","u","s","t","o","m","_","a","l","e","r","t">>),
     JStr(<<"P","E","R","F","O","R","M","A","N","C","E">>)}
RelevanceValues ==
    {Absent, RootCauseTag, DirectlyImpactedTag, IndirectlyAffectedTag}

CategorizeInputs ==
    {[ProblemWith(Absent, JList(<<>>), Absent)
        EXCEPT !.status = st, !.severityLevel = sv, !.relevance = rl] :
        st \in StatusValues, sv \in SeverityValues, rl \in RelevanceValues}

InitCategorize ==
    /\ SessionUnused
    /\ TimeframeUnused
    /\ entity_id = JNull
    /\ service_name = TargetName
    /\ all_problems = <<>>
    /\ service_problems = <<>>
    /\ corr_pc = "to_categorize"
    /\ \E n \in 0..MaxProblems : problems_arg \in [1..n -> CategorizeInputs]
    /\ categorized = NoCategories

\* categorize_problems(problems)
CategorizeProblems ==
    /\ corr_pc = "to_categorize"
    /\ categorized' = categorize_problems(problems_arg)
    /\ corr_pc' = "categorized"
    /\ UNCHANGED <<entity_id, service_name, all_problems, service_problems, problems_arg>>
    /\ UNCHANGED sess_vars
    /\ UNCHANGED time_vars

NextCategorize == CategorizeProblems

SpecCategorize == InitCategorize /\ [][NextCategorize]_vars

----------------------------------------------------------------------------
(* parse on any input, with and without a backend *)

\* how AIIntentParser is built (lines 24-25): without a client, or with the
\* generator of one of the providers
ParserConfigs ==
    {[use_ai |-> FALSE, provider |-> "none"]}
    \cup {[use_ai |-> TRUE, provider |-> p] : p \in Providers}

\* the correlator takes no part in the parser's and the session's runs
CorrelatorUnused ==
    /\ entity_id = JNull
    /\ service_name = TargetName
    /\ all_problems = <<>>
    /\ service_problems = <<>>
    /\ corr_pc = "unused"
    /\ problems_arg = <<>>
    /\ categorized = NoCategories

InitParse ==
    /\ CorrelatorUnused
    /\ TimeframeUnused
    /\ \E c \in ParserConfigs : use_ai = c.use_ai /\ provider = c.provider
    /\ user_input \in ParseInputs
    /\ ai_response = NotCalled
    /\ parsed = JNull
    /\ intent = JNull
    /\ pc = "call_parse"
    /\ conversation_context = InitialContext
    /\ context_at_start = InitialContext
    /\ response = "none"
    /\ messages = <<>>
    /\ updates = 0

\* intent_parser.parse(user_input); the backend is called (line 101) when
\* the parser has a client and the input is not blank
ParseCall ==
    /\ pc = "call_parse"
    /\ \E reply \in BackendReplies :
          /\ ai_response' = IF use_ai /\ ~is_blank(user_input)
                            THEN call_ai(provider, reply) ELSE NotCalled
          /\ parsed' = parse(user_input, use_ai, ai_response')
    /\ pc' = "parse_returned"
    /\ UNCHANGED <<user_input, use_ai, provider, intent, conversation_context,
                   context_at_start, response, messages, updates>>
    /\ UNCHANGED corr_vars
    /\ UNCHANGED time_vars

NextParse == ParseCall

SpecParse == InitParse /\ [][NextParse]_vars

----------------------------------------------------------------------------
(* The chat session: main and process_user_input (src/main.py)            *)

\* main.py builds the parser with the generator as its client (use_ai is
\* true); the generator's provider is "fallback" when no backend is set up
Init ==
    /\ CorrelatorUnused
    /\ TimeframeUnused
    /\ use_ai = TRUE
    /\ provider \in Providers
    /\ user_input = EmptyStr
    /\ ai_response = NotCalled
    /\ parsed = JNull
    /\ intent = JNull
    /\ pc = "idle"
    /\ conversation_context = InitialContext
    /\ context_at_start = InitialContext
    /\ response = "none"
    /\ messages = <<WelcomeMessage>>
    /\ updates = 0

\* lines 408-410: the user sends a prompt; st.chat_input returns a str that
\* is not empty, and add_message("user", prompt) puts it in the history
\* (the history keeps the kind of each text, not its characters)
SubmitPrompt ==
    /\ pc = "idle"
    /\ \E prompt \in Utterances :
          /\ truthy(prompt)
          /\ user_input' = prompt
    /\ context_at_start' = conversation_context
    /\ ai_response' = NotCalled
    /\ parsed' = JNull
    /\ intent' = JNull
    /\ response' = "none"
    /\ messages' = add_message(messages, "user", Text("prompt"))
    /\ updates' = 0
    /\ pc' = "parse"
    /\ UNCHANGED <<use_ai, provider, conversation_context>>
    /\ UNCHANGED corr_vars
    /\ UNCHANGED time_vars

\* lines 314-317: intent = intent_parser.parse(user_input), and the
\* clarification message when there is no intent, which main puts in the
\* history (lines 416-418)
ParseIntent ==
    /\ pc = "parse"
    /\ \E reply \in TurnReplies :
          /\ ai_response' = IF use_ai /\ ~is_blank(user_input)
                            THEN call_ai(provider, reply) ELSE NotCalled
          /\ parsed' = parse(user_input, use_ai, ai_response')
    /\ intent' = parsed'
    /\ IF truthy(parsed')
       THEN pc' = "apply" /\ response' = response /\ messages' = messages
       ELSE /\ pc' = "idle"
            /\ response' = "clarification"
            /\ messages' = add_message(messages, "assistant", Text(response'))
    /\ UNCHANGED <<user_input, use_ai, provider, conversation_context,
                   context_at_start, updates>>
    /\ UNCHANGED corr_vars
    /\ UNCHANGED time_vars

\* line 320: intent = apply_context(intent)
ApplyContext ==
    /\ pc = "apply"
    /\ intent' = apply_context(intent, conversation_context)
    /\ pc' = "update"
    /\ UNCHANGED <<user_input, use_ai, provider, ai_response, parsed,
                   conversation_context, context_at_start, response, messages,
                   updates>>
    /\ UNCHANGED corr_vars
    /\ UNCHANGED time_vars

\* line 323: update_context(intent)
UpdateContext ==
    /\ pc = "update"
    /\ conversation_context' = update_context(conversation_context, intent)
    /\ updates' = updates + 1
    /\ pc' = "dispatch"
    /\ UNCHANGED <<user_input, use_ai, provider, ai_response, parsed, intent,
                   context_at_start, response, messages>>
    /\ UNCHANGED corr_vars
    /\ UNCHANGED time_vars

\* the routing step calling update_context once more after the handler; an
\* error in that code
Dispatch_updates_again ==
    /\ pc = "dispatch"
    /\ response' \in handler_responses(intent)
    /\ messages' = add_message(messages, "assistant", Text(response'))
    /\ conversation_context' = update_context(conversation_context, intent)
    /\ updates' = updates + 1
    /\ pc' = "idle"
    /\ UNCHANGED <<user_input, use_ai, provider, ai_response, parsed, intent,
                   context_at_start>>
    /\ UNCHANGED corr_vars
    /\ UNCHANGED time_vars

\* lines 325-354: the handler of the intent's type runs and answers, and
\* main puts the answer in the history (lines 416-418)
Dispatch ==
    /\ pc = "dispatch"
    /\ response' \in handler_responses(intent)
    /\ messages' = add_message(messages, "assistant", Text(response'))
    /\ pc' = "idle"
    /\ UNCHANGED <<user_input, use_ai, provider, ai_response, parsed, intent,
                   conversation_context, context_at_start, updates>>
    /\ UNCHANGED corr_vars
    /\ UNCHANGED time_vars

\* lines 393-400: the Clear Chat History button
ClearChatHistory ==
    /\ pc = "idle"
    /\ messages' = <<>>
    /\ conversation_context' = InitialContext
    /\ UNCHANGED <<user_input, use_ai, provider, ai_response, parsed, intent,
                   pc, context_at_start, response, updates>>
    /\ UNCHANGED corr_vars
    /\ UNCHANGED time_vars

Next ==
    \/ SubmitPrompt
    \/ ParseIntent
    \/ ApplyContext
    \/ UpdateContext
    \/ Dispatch
    \/ ClearChatHistory

Spec == Init /\ [][Next]_vars

----------------------------------------------------------------------------
(* parse_timeframe and human_readable_timeframe (src/utils/timeframe.py)   *)

\* an exception of the named class
RaiseOf(error) == [t |-> "raise", error |-> error]

\* re.match(r'^(\d+)([mhdw])$', cs) (lines 24 and 75): the two groups, or
\* NoMatch; $ matches at the end and before a line feed that ends cs
timeframe_match(cs) ==
    LET e == run_end(cs, 0, Digits)
    IN  IF /\ e > 0
           /\ e < Len(cs)
           /\ cs[e + 1] \in UnitLetters
           /\ \/ Len(cs) = e + 1
              \/ Len(cs) = e + 2 /\ cs[e + 2] = "\n"
        THEN [t |-> "match", value |-> SubSeq(cs, 1, e), unit |-> cs[e + 1]]
        ELSE NoMatch

\* the value of a decimal digit
digit_value(c) == CHOOSE n \in 0..9 : <<"0","1","2","3","4","5","6","7","8","9">>[n + 1] = c

\* int(ds) on a str of decimal digits (lines 32 and 80)
RECURSIVE py_int(_)
py_int(ds) ==
    IF ds = <<>> THEN 0
    ELSE 10 * py_int(SubSeq(ds, 1, Len(ds) - 1)) + digit_value(ds[Len(ds)])

\* str(n) of an int n >= 0 (the f-string of line 90)
RECURSIVE py_str_int(_)
py_str_int(n) ==
    IF n < 10 THEN <<<<"0","1","2","3","4","5","6","7","8","9">>[n + 1]>>
    ELSE py_str_int(n \div 10) \o <<<<"0","1","2","3","4","5","6","7","8","9">>[(n % 10) + 1]>>

\* unit_mapping (lines 36-41) as the minutes of one unit of the timedelta
unit_minutes == [m |-> 1, h |-> 60, d |-> 24 * 60, w |-> 7 * 24 * 60]

\* parse_timeframe (lines 9-47) at the instant now: a window, ValueError
\* when the str does not match, OverflowError when now - delta is before
\* datetime.min (line 45), AttributeError when timeframe is no str
parse_timeframe(timeframe, now) ==
    IF timeframe.t # "str" THEN RaiseOf("AttributeError")
    ELSE LET match == timeframe_match(lower_chars(timeframe.s))
         IN  IF match = NoMatch THEN RaiseOf("ValueError")
             ELSE LET value == py_int(match.value)
                      unit == unit_minutes[match.unit]
                  IN  IF value > now \div unit THEN RaiseOf("OverflowError")
                      ELSE [t |-> "window", from_time |-> now - value * unit,
                            to_time |-> now]

\* unit_names (lines 83-88)
unit_names(value) ==
    [m |-> IF value = 1 THEN <<"m","i","n","u","t","e">> ELSE <<"m","i","n","u","t","e","s">>,
     h |-> IF value = 1 THEN <<"h","o","u","r">> ELSE <<"h","o","u","r","s">>,
     d |-> IF value = 1 THEN <<"d","a","y">> ELSE <<"d","a","y","s">>,
     w |-> IF value = 1 THEN <<"w","e","e","k">> ELSE <<"w","e","e","k","s">>]

\* human_readable_timeframe with the plural of every unit; an error in that
\* code
human_readable_always_plural(timeframe) ==
    IF timeframe.t # "str" THEN RaiseOf("AttributeError")
    ELSE LET match == timeframe_match(lower_chars(timeframe.s))
         IN  IF match = NoMatch THEN timeframe
             ELSE LET value == py_int(match.value)
                  IN  JStr(<<"L","a","s","t"," ">> \o py_str_int(value) \o <<" ">>
                           \o unit_names(0)[match.unit])

\* human_readable_timeframe (lines 65-90)
human_readable_timeframe(timeframe) ==
    IF timeframe.t # "str" THEN RaiseOf("AttributeError")
    ELSE LET match == timeframe_match(lower_chars(timeframe.s))
         IN  IF match = NoMatch THEN timeframe
             ELSE LET value == py_int(match.value)
                  IN  JStr(<<"L","a","s","t"," ">> \o py_str_int(value) \o <<" ">>
                           \o unit_names(value)[match.unit])

\* the most digits of the numbers built from DigitChoice
MaxDigits == 2
\* the digits these numbers are built from
DigitChoice == {"0", "1", "3", "9"}
\* the numbers: every str of 1 to MaxDigits of these digits
Numerals == UNION {[1..n -> DigitChoice] : n \in 1..MaxDigits}
\* what may follow the number
UnitChoice == {<<"m">>, <<"h">>, <<"d">>, <<"w">>, <<"H">>, <<"W">>, <<"x">>, <<"h","h">>, <<>>}

\* the arguments: numbers with and without a unit, long periods, and strs
\* with white space, a sign or words
TimeframeInputs ==
    {JStr(ds \o u) : ds \in Numerals, u \in UnitChoice}
    \cup {JStr(<<"9","9","9","9","9","9","d">>), JStr(<<"9","9","9","9","9","9","w">>), JStr(<<"9","9","9","9","9","9","9","9","h">>), JStr(<<"9","9","9","9","9","9","9","9","9","m">>),
          JStr(<<"0","0","7","d">>), JStr(<<"2","h","\n">>), JStr(<<"2","h","\n","\n">>), JStr(<<" ","2","h">>), JStr(<<"2"," ","h">>),
          JStr(<<"-","1","h">>), JStr(<<"h">>), EmptyStr, JStr(<<"l","a","s","t"," ","2"," ","h","o","u","r","s">>)}

\* datetime.utcnow() at two instants, 2024-01-01 00:00 and 2026-11-01 11:20,
\* in minutes since datetime.min (date.toordinal() - 1 days)
NowValues == {738885 * 24 * 60, 739920 * 24 * 60 + 11 * 60 + 20}

InitTimeframe ==
    /\ CorrelatorUnused
    /\ SessionUnused
    /\ timeframe_arg \in TimeframeInputs
    /\ utc_now \in NowValues
    /\ window = NotCalled
    /\ readable = NotCalled

\* parse_timeframe(timeframe_arg)
ParseTimeframe ==
    /\ window = NotCalled
    /\ window' = parse_timeframe(timeframe_arg, utc_now)
    /\ UNCHANGED <<timeframe_arg, utc_now, readable>>
    /\ UNCHANGED <<corr_vars, sess_vars>>

\* human_readable_timeframe(timeframe_arg)
HumanReadableTimeframe ==
    /\ readable = NotCalled
    /\ readable' = human_readable_timeframe(timeframe_arg)
    /\ UNCHANGED <<timeframe_arg, utc_now, window>>
    /\ UNCHANGED <<corr_vars, sess_vars>>

NextTimeframe == ParseTimeframe \/ HumanReadableTimeframe

SpecTimeframe == InitTimeframe /\ [][NextTimeframe]_vars

----------------------------------------------------------------------------
(* _filter_problems_by_name on problems that have titles *)

\* title and displayName of a problem: missing, holding the target name in
\* another case, or not holding it
TitlePairs ==
    {[title |-> Absent, displayName |-> Absent],
     [title |-> JStr(<<"P","A","Y"," ","l","a","t","e","n","c","y">>), displayName |-> JStr(<<"P","-","1">>)],
     [title |-> JStr(<<"H","i","g","h"," ","C","P","U">>), displayName |-> JStr(<<"p","a","y","m","e","n","t","s"," ","P","-","2">>)],
     [title |-> JStr(<<"H","i","g","h"," ","C","P","U">>), displayName |-> JStr(<<"P","-","3">>)]}

\* the entities of these problems: one whose name holds the target name in
\* another case and one whose name does not
NamedEntities ==
    {Entity(IdDict(OtherId), JStr(<<"P","A","Y","-","a","p","i">>)),
     Entity(IdDict(OtherId), JStr(<<"d","b">>))}

\* the titled problems of one shape
TitledProblemsShaped(sh) ==
    {[ProblemWith(IF sh.imp = 0 THEN Absent ELSE JList(i), JList(a), r)
        EXCEPT !.title = tp.title, !.displayName = tp.displayName] :
        i \in [1..sh.imp -> NamedEntities], a \in [1..sh.aff -> NamedEntities],
        r \in (IF sh.root = "entity" THEN NamedEntities ELSE {Absent}),
        tp \in TitlePairs}

RECURSIVE TitledListsShaped(_)
TitledListsShaped(shs) ==
    IF shs = <<>> THEN {<<>>}
    ELSE {<<p>> \o rest :
            p \in TitledProblemsShaped(Head(shs)), rest \in TitledListsShaped(Tail(shs))}

InitNameFilter ==
    /\ SessionUnused
    /\ TimeframeUnused
    /\ entity_id = JNull
    /\ service_name = TargetName
    /\ \E n \in 0..MaxProblems : \E shs \in [1..n -> Shapes] :
          /\ TotalSize(shs) <= MaxEntities
          /\ all_problems \in TitledListsShaped(shs)
    /\ service_problems = <<>>
    /\ corr_pc = "fetched"
    /\ problems_arg = <<>>
    /\ categorized = NoCategories

NextNameFilter == FilterProblemsByName

SpecNameFilter == InitNameFilter /\ [][NextNameFilter]_vars

----------------------------------------------------------------------------
(* What the claims say about a problem, read off its fields *)

\* impacted + affected + root cause of a problem, whatever is well formed
UnionEntities(p) ==
    (IF p.impactedEntities.t = "list" THEN p.impactedEntities.l ELSE <<>>)
    \o (IF p.affectedEntities.t = "list" THEN p.affectedEntities.l ELSE <<>>)
    \o (IF p.rootCauseEntity.t = "obj" THEN <<p.rootCauseEntity>> ELSE <<>>)

HasId(e, id) == e.t = "obj" /\ e.entityId.t = "obj" /\ e.entityId.id = id

\* the entity's name contains the target name, case-insensitively
NameContainsTarget(e, target) ==
    e.t = "obj" /\ e.name.t = "str"
    /\ contains(lower_chars(e.name.s), lower_chars(target.s))

\* the target name contains the entity's name, case-insensitively
TargetContainsName(e, target) ==
    e.t = "obj" /\ e.name.t = "str"
    /\ contains(lower_chars(target.s), lower_chars(e.name.s))

IdMatch(p) == \E k \in 1..Len(UnionEntities(p)) : HasId(UnionEntities(p)[k], entity_id)
NameMatch(p) ==
    \E k \in 1..Len(UnionEntities(p)) : NameContainsTarget(UnionEntities(p)[k], service_name)
ReverseNameMatch(p) ==
    \E k \in 1..Len(UnionEntities(p)) : TargetContainsName(UnionEntities(p)[k], service_name)

RoleTags == {RootCauseTag, DirectlyImpactedTag, IndirectlyAffectedTag}

\* the entity-id pass has returned its list
EntityPassReturned == corr_pc = "returned" /\ truthy(entity_id)

InOutput(i) == \E k \in 1..Len(service_problems) : service_problems[k] = i

\* the relevance rule of the specification for a problem
RelevanceRule(p) ==
    IF HasId(p.rootCauseEntity, entity_id) THEN RootCauseTag
    ELSE IF p.impactedEntities.t = "list"
            /\ \E k \in 1..Len(p.impactedEntities.l) : HasId(p.impactedEntities.l[k], entity_id)
         THEN DirectlyImpactedTag
    ELSE IndirectlyAffectedTag

----------------------------------------------------------------------------
(* Claims *)

\* C1: in entity-id mode a record of the output that has both an entity-id
\* match and a name match carries a role tag (root_cause, directly_impacted
\* or indirectly_affected), never name_match, whatever the order of its
\* entities.
C1_IdOutranksName ==
    EntityPassReturned =>
        \A k \in 1..Len(service_problems) :
            LET p == all_problems[service_problems[k]]
            IN  (IdMatch(p) /\ NameMatch(p)) => p.relevance \in RoleTags

\* C2: neither filter ever raises on a malformed record or entity: every
\* pass returns its list.
C2_NeverRaises == corr_pc # "raised"

----------------------------------------------------------------------------
(* What the claims say about a reply of the backend and about an input    *)

\* the replies that are not JSON, or are JSON that is not an object, once
\* white space and a code fence around them are taken off
FailedReplies ==
    {JStr(doc) : doc \in {Prose, DocList, DocNull, DocString, DocNumber, JsonFenced(DocList)}}

\* the backend was called and failed: it raised, or its reply is no JSON object
BackendFailed == ai_response = Raise \/ ai_response \in FailedReplies

\* the replies that are a JSON object without the key intent_type
RepliesWithoutType == {JStr(DocNoType), JStr(DocEmptyObject)}

\* the input is empty or holds white space only
Blank(input) == \A i \in 1..Len(input.s) : input.s[i] \in SpaceChars

\* what the fallback tier makes of the input parse was given
FallbackIntent == parse_with_patterns(py_strip(user_input))

\* C3 (as stated): an intent without a service_name whose type equals
\* context.last_intent has, after apply_context, the service_name
\* context.last_service and is_followup true.
C3_FollowupInherits ==
    (pc = "update" /\ parsed.service_name = JNull
        /\ parsed.type = conversation_context.last_intent)
    => (intent.service_name = conversation_context.last_service
        /\ intent.is_followup = JTrue)

\* C3 (amended): an intent without a service_name whose type equals
\* context.last_intent, when context.last_service is present, has after
\* apply_context the service_name context.last_service and is_followup true.
C3_FollowupInheritsKnownService ==
    (pc = "update" /\ parsed.service_name = JNull
        /\ parsed.type = conversation_context.last_intent
        /\ conversation_context.last_service \notin {JNull, EmptyStr})
    => (intent.service_name = conversation_context.last_service
        /\ intent.is_followup = JTrue)

\* after "Check payment-api 30m", the follow-up "how is it now?" inherits
\* payment-api
C3_Witness ==
    /\ pc = "update"
    /\ user_input = JStr(<<"h","o","w"," ","i","s"," ","i","t"," ","n","o","w","?">>)
    /\ parsed.service_name = JNull
    /\ parsed.type = check_abnormality
    /\ conversation_context =
          [last_service |-> JStr(<<"p","a","y","m","e","n","t","-","a","p","i">>), last_intent |-> check_abnormality,
           last_timeframe |-> JStr(<<"3","0","m">>)]
    /\ intent.service_name = JStr(<<"p","a","y","m","e","n","t","-","a","p","i">>)
    /\ intent.is_followup = JTrue

\* C4: within a turn the context is updated only after the handler has
\* answered: while the handler is about to run, the context is still the
\* one the turn started with.
C4_UpdateAfterDispatch ==
    pc = "dispatch" => conversation_context = context_at_start

\* C5: when the backend is called and fails (it raises, or replies with
\* text that is not JSON or with JSON that is not an object), parse returns
\* exactly the intent of the fallback tier for the same input.
C5_FailureFallsBack ==
    (pc = "parse_returned" /\ use_ai /\ BackendFailed) => parsed = FallbackIntent

\* the backend replied with a JSON list to "check ordercontroller" and the
\* fallback tier's intent was returned
C5_Witness ==
    /\ pc = "parse_returned"
    /\ use_ai
    /\ user_input = JStr(<<"c","h","e","c","k"," ","o","r","d","e","r","c","o","n","t","r","o","l","l","e","r">>)
    /\ ai_response = JStr(DocList)
    /\ parsed.type = check_abnormality
    /\ parsed.service_name = JStr(<<"o","r","d","e","r","c","o","n","t","r","o","l","l","e","r">>)

\* C6: when the backend replies with a JSON object that lacks intent_type,
\* parse returns the intent of the fallback tier for the same input.
C6_MissingKeyFallsBack ==
    (pc = "parse_returned" /\ ai_response \in RepliesWithoutType)
    => parsed = FallbackIntent

\* C7: parse returns no intent if and only if the input is empty or holds
\* white space only, whether the backend is absent, succeeds or fails.
C7_NoIntentIffBlank ==
    pc = "parse_returned" => (parsed = JNull <=> Blank(user_input))

\* parse was given white space only and returned no intent
C7_Witness ==
    /\ pc = "parse_returned"
    /\ user_input = JStr(<<" "," "," ">>)
    /\ parsed = JNull


----------------------------------------------------------------------------
\* C8 as stated: after an entity-id pass a record is in the output exactly
\* when some entity of it has the target id, or has a name that contains the
\* target name, or has a name the target name contains.
C8_MatchEitherDirection ==
    EntityPassReturned =>
        \A i \in 1..Len(all_problems) :
            InOutput(i) <=> (\/ IdMatch(all_problems[i])
                             \/ NameMatch(all_problems[i])
                             \/ ReverseNameMatch(all_problems[i]))

\* C8 amended: an entity-id pass either raises on a null field or returns,
\* and when it returns a record is in the output exactly when some entity of
\* it has the target id or has a name that contains the target name (the
\* target name containing the entity's name does not match).
C8_MatchIdOrNameContainsTarget ==
    EntityPassReturned =>
        \A i \in 1..Len(all_problems) :
            InOutput(i) <=> (IdMatch(all_problems[i]) \/ NameMatch(all_problems[i]))

\* C8 witness: a returned pass that accepted one record by its id and one by
\* its name and left out a record whose only match is the reverse containment.
C8_Witness ==
    /\ EntityPassReturned
    /\ \E i \in 1..Len(all_problems) :
          ~InOutput(i) /\ ReverseNameMatch(all_problems[i])
    /\ \E i \in 1..Len(all_problems) :
          InOutput(i) /\ (IdMatch(all_problems[i]) \/ NameMatch(all_problems[i]))

\* C9: a record the entity-id pass accepted by its id (it has an id match and
\* was not tagged by the name branch) is tagged RootCause if its root cause
\* has the target id, else DirectlyImpacted if an impacted entity has it,
\* else IndirectlyAffected.
C9_RelevanceRule ==
    EntityPassReturned =>
        \A k \in 1..Len(service_problems) :
            LET p == all_problems[service_problems[k]]
            IN  (IdMatch(p) /\ p.relevance # NameMatchTag) => p.relevance = RelevanceRule(p)

\* C9 witness: a record whose only entity is a root cause with the target id
\* is in the output with RootCause, next to one tagged DirectlyImpacted.
C9_Witness ==
    /\ EntityPassReturned
    /\ \E k \in 1..Len(service_problems) :
          LET p == all_problems[service_problems[k]]
          IN  /\ Len(UnionEntities(p)) = 1
              /\ HasId(p.rootCauseEntity, entity_id)
              /\ p.relevance = RootCauseTag
    /\ \E k \in 1..Len(service_problems) :
          all_problems[service_problems[k]].relevance = DirectlyImpactedTag

\* how often index i occurs in a bucket
Occurrences(bucket, i) == Cardinality({k \in 1..Len(bucket) : bucket[k] = i})

StatusIs(p, word) == p.status.t = "str" /\ upper_chars(p.status.s) = word.s
SeverityIs(p, word) == p.severityLevel.t = "str" /\ upper_chars(p.severityLevel.s) = word.s

\* the bucket the specification gives a problem: the first rule that applies
BucketRule(p) ==
    IF StatusIs(p, RESOLVED) THEN "resolved"
    ELSE IF p.relevance = RootCauseTag \/ SeverityIs(p, ERROR) \/ SeverityIs(p, CUSTOM_ALERT)
         THEN "critical"
    ELSE IF p.relevance = DirectlyImpactedTag THEN "important"
    ELSE "related"

\* C10: categorize_problems puts every record of its input into exactly one
\* of the four buckets, the first that applies of: status RESOLVED gives
\* resolved; relevance RootCause or severity ERROR or CUSTOM_ALERT gives
\* critical; relevance DirectlyImpacted gives important; else related. The
\* bucket sizes sum to the number of input records.
C10_Partition ==
    corr_pc = "categorized" =>
        /\ ~categorized.raised
        /\ \A i \in 1..Len(problems_arg) : \A b \in Buckets :
              Occurrences(categorized[b], i) = IF b = BucketRule(problems_arg[i]) THEN 1 ELSE 0
        /\ Len(categorized.critical) + Len(categorized.important)
             + Len(categorized.related) + Len(categorized.resolved) = Len(problems_arg)

\* C10 witness: a resolved record with relevance RootCause and severity ERROR
\* is in resolved, and another record of the same input is in critical.
C10_Witness ==
    /\ corr_pc = "categorized"
    /\ Len(problems_arg) = 2
    /\ \E k \in 1..Len(categorized.resolved) :
          LET p == problems_arg[categorized.resolved[k]]
          IN  p.relevance = RootCauseTag /\ SeverityIs(p, ERROR)
    /\ Len(categorized.critical) = 1

----------------------------------------------------------------------------
\* the target name is a case-insensitive substring of the title or of the
\* display name
TitleHit(p) ==
    \/ (p.title.t = "str" /\ contains(lower_chars(p.title.s), lower_chars(service_name.s)))
    \/ (p.displayName.t = "str"
        /\ contains(lower_chars(p.displayName.s), lower_chars(service_name.s)))

\* the impacted and affected entities of a problem
ImpactedAndAffected(p) ==
    (IF p.impactedEntities.t = "list" THEN p.impactedEntities.l ELSE <<>>)
    \o (IF p.affectedEntities.t = "list" THEN p.affectedEntities.l ELSE <<>>)

\* the target name is a case-insensitive substring of the name of an
\* impacted or affected entity
EntityNameHit(p) ==
    \E k \in 1..Len(ImpactedAndAffected(p)) :
        NameContainsTarget(ImpactedAndAffected(p)[k], service_name)

\* the name-only pass has returned its list
NamePassReturned == corr_pc = "returned" /\ ~truthy(entity_id)

\* C11: in name-only mode a record whose title or display name holds the
\* target name is accepted with tag title_match; otherwise a record with an
\* impacted or affected entity whose name holds the target name is accepted
\* with tag entity_match; every other record is excluded, also when its
\* root cause entity's name holds the target name.
C11_NameModeTags ==
    NamePassReturned =>
        \A i \in 1..Len(all_problems) :
            LET p == all_problems[i]
            IN  /\ TitleHit(p) => (InOutput(i) /\ p.relevance = TitleMatchTag)
                /\ (~TitleHit(p) /\ EntityNameHit(p))
                      => (InOutput(i) /\ p.relevance = EntityMatchTag)
                /\ (~TitleHit(p) /\ ~EntityNameHit(p)) => ~InOutput(i)

\* a pass over two problems returned: the first has the target name in its
\* title and in an entity's name and is tagged title_match, the second has
\* it only in its root cause entity's name and is excluded
C11_Witness ==
    /\ NamePassReturned
    /\ Len(all_problems) = 2
    /\ TitleHit(all_problems[1]) /\ EntityNameHit(all_problems[1])
    /\ all_problems[1].relevance = TitleMatchTag
    /\ ~TitleHit(all_problems[2]) /\ ~EntityNameHit(all_problems[2])
    /\ all_problems[2].rootCauseEntity.t = "obj"
    /\ NameContainsTarget(all_problems[2].rootCauseEntity, service_name)
    /\ service_problems = <<1>>

----------------------------------------------------------------------------
\* the tags a correlation pass assigns
PassTags ==
    {RootCauseTag, DirectlyImpactedTag, IndirectlyAffectedTag, NameMatchTag,
     TitleMatchTag, EntityMatchTag}

\* how often problem i is in the list the pass returned
OutputCount(i) == Cardinality({k \in 1..Len(service_problems) : service_problems[k] = i})

\* C12: after a pass over problems that arrived without a relevance, every
\* problem in the output carries one relevance tag and was appended (and so
\* tagged) once, and every problem that is not in the output carries none.
C12_TaggedIffInOutput ==
    corr_pc = "returned" =>
        \A i \in 1..Len(all_problems) :
            IF InOutput(i)
            THEN all_problems[i].relevance \in PassTags /\ OutputCount(i) = 1
            ELSE all_problems[i].relevance = Absent

\* an entity-id pass over two problems returned the second one, tagged, and
\* left the first one out, untagged
C12_Witness ==
    /\ EntityPassReturned
    /\ Len(all_problems) = 2
    /\ service_problems = <<2>>
    /\ all_problems[1].relevance = Absent
    /\ all_problems[2].relevance \in RoleTags

----------------------------------------------------------------------------
\* the categories in the order of precedence
Precedence ==
    <<check_abnormality, list_services, service_details, metrics_analysis,
      compare_services, troubleshoot>>

\* the trigger keywords of a category
TriggerKeywords(category) ==
    LET i == CHOOSE j \in 1..Len(intent_keywords) : intent_keywords[j].intent = category
    IN  {intent_keywords[i].keywords[k] : k \in 1..Len(intent_keywords[i].keywords)}

\* the number of trigger keywords of a category that occur in the
\* lower-cased input
CategoryScore(category, input) ==
    Cardinality({kw \in TriggerKeywords(category) : contains(py_lower(input).s, kw)})

\* parse returned what the fallback tier made of a non-blank input
FallbackTierReturned ==
    /\ pc = "parse_returned"
    /\ ~Blank(user_input)
    /\ ~use_ai \/ BackendFailed

\* C13: the fallback tier's category is the one with the highest number of
\* trigger keywords in the lower-cased input, the first in the order of
\* precedence among those with that number, and general_question when
\* no keyword occurs.
C13_HighestScoreByPrecedence ==
    FallbackTierReturned =>
        IF \A k \in 1..Len(Precedence) : CategoryScore(Precedence[k], user_input) = 0
        THEN parsed.type = general_question
        ELSE \E k \in 1..Len(Precedence) :
                /\ parsed.type = Precedence[k]
                /\ \A j \in 1..Len(Precedence) :
                      CategoryScore(Precedence[j], user_input)
                          <= CategoryScore(Precedence[k], user_input)
                /\ \A j \in 1..(k - 1) :
                      CategoryScore(Precedence[j], user_input)
                          < CategoryScore(Precedence[k], user_input)

\* "debug cpu" scores one for metrics_analysis and one for troubleshoot, and
\* the earlier one is returned
C13_Witness ==
    /\ FallbackTierReturned
    /\ user_input = JStr(<<"d","e","b","u","g"," ","c","p","u">>)
    /\ CategoryScore(metrics_analysis, user_input) = 1
    /\ CategoryScore(troubleshoot, user_input) = 1
    /\ parsed.type = metrics_analysis

----------------------------------------------------------------------------
\* the step of a turn that calls update_context
UpdateStep == pc = "update" /\ pc' = "dispatch"

\* C14 (as stated): update_context overwrites last_service, last_intent and
\* last_timeframe with the intent's field when that field is not null, leaves
\* each as it was when the field is null, and changes nothing else in the
\* session.
C14_UpdateOverwritesPresent ==
    [][UpdateStep =>
          /\ conversation_context'.last_service =
                IF intent.service_name # JNull THEN intent.service_name
                ELSE conversation_context.last_service
          /\ conversation_context'.last_intent =
                IF intent.type # JNull THEN intent.type
                ELSE conversation_context.last_intent
          /\ conversation_context'.last_timeframe =
                IF intent.timeframe # JNull THEN intent.timeframe
                ELSE conversation_context.last_timeframe
          /\ UNCHANGED <<messages, intent, use_ai, provider>>]_vars

\* C15 (as stated): apply_context replaces a timeframe that is null or "2h"
\* by context.last_timeframe and leaves any other timeframe as it is.
C15_DefaultTimeframeReplaced ==
    pc = "update" =>
        intent.timeframe =
            IF parsed.timeframe = JNull \/ parsed.timeframe = DefaultTimeframe
            THEN conversation_context.last_timeframe
            ELSE parsed.timeframe

----------------------------------------------------------------------------
\* pairs of utterances that differ in the explicit timeframe "2h" only
TimeframeTwins ==
    {<<JStr(<<"s","t","a","t","u","s"," ","2","h">>), JStr(<<"s","t","a","t","u","s">>)>>,
     <<JStr(<<"c","h","e","c","k"," ","o","r","d","e","r","c","o","n","t","r","o","l","l","e","r"," ","2","h">>), JStr(<<"c","h","e","c","k"," ","o","r","d","e","r","c","o","n","t","r","o","l","l","e","r">>)>>}

\* what the turn of the fallback tier on the utterance twin makes of the
\* context this turn began with: the resolved intent and the context left
TwinIntent(twin) ==
    apply_context(parse_with_patterns(py_strip(twin)), context_at_start)
TwinContext(twin) == update_context(context_at_start, TwinIntent(twin))

\* C16: a turn of the fallback tier on an utterance that names "2h" and the
\* turn on the same utterance without a timeframe, run from the same
\* context, resolve to the same timeframe and leave the same last_timeframe.
C16_ExplicitDefaultAsNone ==
    (pc = "dispatch" /\ BackendFailed) =>
        \A pair \in TimeframeTwins : \A k \in 1..2 :
            user_input = pair[k] =>
                /\ intent.timeframe = TwinIntent(pair[3 - k]).timeframe
                /\ conversation_context.last_timeframe
                      = TwinContext(pair[3 - k]).last_timeframe

\* "status 2h" in a context whose last_timeframe is 30m resolves to 30m
C16_Witness ==
    /\ pc = "dispatch"
    /\ BackendFailed
    /\ user_input = JStr(<<"s","t","a","t","u","s"," ","2","h">>)
    /\ parsed.timeframe = DefaultTimeframe
    /\ context_at_start.last_timeframe = JStr(<<"3","0","m">>)
    /\ intent.timeframe = JStr(<<"3","0","m">>)
    /\ conversation_context.last_timeframe = JStr(<<"3","0","m">>)

\* the turn's steps before update_context has run see the context as the
\* previous turn left it, and update_context gets what apply_context made
\* of the parsed intent and that context
UpdateAfterApply ==
    /\ pc \in {"parse", "apply", "update"}
          => (updates = 0 /\ conversation_context = context_at_start)
    /\ pc = "update" => intent = apply_context(parsed, context_at_start)
    /\ pc = "dispatch" => updates = 1

\* a turn has ended
TurnEnded == pc = "idle" /\ response # "none"

\* C17 (as stated): the context is updated once in every turn, after the
\* intent is resolved and after apply_context, which reads the values the
\* previous turn left.
C17_UpdatedOncePerTurn ==
    /\ TurnEnded => updates = 1
    /\ UpdateAfterApply

\* C17 (amended): the context is updated once in every turn that resolves
\* an intent and not at all in a turn that resolves none, after the intent
\* is resolved and after apply_context, which reads the values the previous
\* turn left.
C17_UpdatedOncePerResolvedTurn ==
    /\ TurnEnded => updates = (IF truthy(parsed) THEN 1 ELSE 0)
    /\ UpdateAfterApply

\* a turn that resolved an intent has ended and has changed the context
C17_Witness ==
    /\ TurnEnded
    /\ truthy(parsed)
    /\ updates = 1
    /\ conversation_context # context_at_start
    /\ intent = apply_context(parsed, context_at_start)

\* C18: a step that is not the clear operation keeps a last_service that is
\* not null and a last_intent that is not null from becoming null, and does
\* not take the context back to its initial value.
C18_OnlyClearResets ==
    [][ClearChatHistory
       \/ /\ conversation_context.last_service # JNull
                => conversation_context'.last_service # JNull
          /\ conversation_context.last_intent # JNull
                => conversation_context'.last_intent # JNull
          /\ conversation_context' = InitialContext
                => conversation_context = InitialContext]_vars

\* a turn without a service has updated a context that holds a service
C18_Witness ==
    /\ pc = "dispatch"
    /\ context_at_start.last_service # JNull
    /\ intent.service_name = JNull
    /\ conversation_context.last_service = context_at_start.last_service

\* the texts process_user_input returns
AnswerKinds ==
    {"clarification", "which_service", "service_not_found", "service_analysis",
     "service_list", "no_service_list", "general_answer", "under_development",
     "error"}

\* the last messages of the history are the prompt and one answer to it
AnsweredWith(history, kind) ==
    /\ Len(history) >= 2
    /\ history[Len(history)] = Message("assistant", Text(kind))
    /\ history[Len(history) - 1] = Message("user", Text("prompt"))

\* C19: every turn ends with one text returned and appended to the history,
\* and the session is idle again: the clarification on blank input, the
\* under-development text for a category without a handler, the error text
\* when a handler raises; the steps in between leave the history alone.
C19_EveryTurnAnswers ==
    [][pc # "idle" =>
          IF pc' = "idle"
          THEN /\ response' \in AnswerKinds
               /\ AnsweredWith(messages', response')
               /\ Blank(user_input) => response' = "clarification"
               /\ (pc = "dispatch" /\ intent.type \in {compare_services, troubleshoot})
                     => response' = "under_development"
          ELSE messages' = messages]_vars

\* a turn whose handler raised has ended with the error text in the history
C19_Witness ==
    /\ TurnEnded
    /\ response = "error"
    /\ AnsweredWith(messages, "error")
    /\ Len(messages) = MAX_CHAT_HISTORY

\* one or more digits and one unit letter
Canonical(v) ==
    /\ v.t = "str"
    /\ Len(v.s) >= 2
    /\ v.s[Len(v.s)] \in UnitLetters
    /\ \A i \in 1..(Len(v.s) - 1) : v.s[i] \in Digits

\* C20: every resolved intent, of either tier and after apply_context, has a
\* timeframe of one or more digits and one unit of m, h, d, w.
C20_CanonicalTimeframe ==
    pc \in {"update", "dispatch"} => Canonical(intent.timeframe)

----------------------------------------------------------------------------
\* a str of one or more digits and one of the letters of units
MatchesGrammar(v, units) ==
    /\ v.t = "str"
    /\ Len(v.s) >= 2
    /\ v.s[Len(v.s)] \in units
    /\ \A i \in 1..(Len(v.s) - 1) : v.s[i] \in Digits

\* the decimal numeral ds without its leading zeros
RECURSIVE WithoutLeadingZeros(_)
WithoutLeadingZeros(ds) ==
    IF Len(ds) > 1 /\ ds[1] = "0" THEN WithoutLeadingZeros(SubSeq(ds, 2, Len(ds)))
    ELSE ds

\* the word of a unit letter, singular or plural
UnitWord(u, singular) ==
    LET word == CASE u = "m" -> <<"m","i","n","u","t","e">> [] u = "h" -> <<"h","o","u","r">>
                  [] u = "d" -> <<"d","a","y">> [] u = "w" -> <<"w","e","e","k">>
    IN  IF singular THEN word ELSE word \o <<"s">>

\* C21: for a str of digits and one unit m, h, d, w, human_readable_timeframe
\* returns "Last N <unit word>" with the number N of the digits and the word
\* of the unit, singular exactly when N is 1.
C21_HumanReadable ==
    (readable # NotCalled /\ MatchesGrammar(timeframe_arg, UnitLetters)) =>
        LET cs == timeframe_arg.s
            number == WithoutLeadingZeros(SubSeq(cs, 1, Len(cs) - 1))
        IN  readable = JStr(<<"L","a","s","t"," ">> \o number \o <<" ">>
                            \o UnitWord(cs[Len(cs)], number = <<"1">>))

\* "01w" gives "Last 1 week"
C21_Witness ==
    /\ timeframe_arg = JStr(<<"0","1","w">>)
    /\ readable = JStr(<<"L","a","s","t"," ","1"," ","w","e","e","k">>)

\* the units in either case
UnitLettersAnyCase == UnitLetters \cup {"M", "H", "D", "W"}

\* C22: parse_timeframe raises ValueError if and only if its argument does
\* not match digits and one unit (in either case), and returns a window for
\* every argument that matches.
C22_ValueErrorIffNoMatch ==
    window # NotCalled =>
        IF MatchesGrammar(timeframe_arg, UnitLettersAnyCase)
        THEN window.t = "window"
        ELSE window = RaiseOf("ValueError")

----------------------------------------------------------------------------
\* the step of a correlation pass, whether it returns or raises
CorrelateStep == corr_pc = "fetched" /\ corr_pc' \in {"returned", "raised"}

\* C23: a correlation pass leaves the list of problems as long as it was and
\* every problem as it was in every field but relevance.
C23_OnlyRelevanceWritten ==
    [][CorrelateStep =>
          /\ Len(all_problems') = Len(all_problems)
          /\ \A i \in 1..Len(all_problems) :
                [all_problems'[i] EXCEPT !.relevance = all_problems[i].relevance]
                    = all_problems[i]]_vars

\* a pass has tagged the first of two problems, which has a root cause
\* entity and an affected entity
C23_Witness ==
    /\ corr_pc = "returned"
    /\ Len(all_problems) = 2
    /\ service_problems = <<1>>
    /\ all_problems[1].relevance \in PassTags
    /\ all_problems[1].rootCauseEntity # Absent
    /\ all_problems[1].affectedEntities # JList(<<>>)

----------------------------------------------------------------------------
\* the text the fallback tier searches: the input stripped and lower-cased
SearchedText == lower_chars(py_strip(user_input).s)

\* the captures of the patterns that come before the action verbs, in the
\* order of the cascade: for, of/about, service X, X service, a quoted
\* token, a suffixed token, a prefixed token
EarlierCaptures(text) ==
    <<search_keyword_then_name(text, <<<<"f","o","r">>>>),
      search_keyword_then_name(text, <<<<"o","f">>, <<"a","b","o","u","t">>>>),
      search_keyword_then_name(text, <<<<"s","e","r","v","i","c","e">>>>),
      re_search([g \in 0..Len(text) |-> name_then_service_at(text, g)]),
      re_search([g \in 0..Len(text) |-> quoted_name_at(text, g)]),
      re_search([g \in 0..Len(text) |-> suffixed_name_at(text, g)]),
      re_search([g \in 0..Len(text) |->
          first_alt([k \in 1..Len(ServicePrefixes) |->
              prefixed_name_at(text, g, ServicePrefixes[k])])])>>

Stoplist == {<<"s","e","r","v","i","c","e">>, <<"s","e","r","v","i","c","e","s">>, <<"s","t","a","t","u","s">>, <<"h","e","a","l","t","h">>, <<"m","e","t","r","i","c","s">>, <<"i","s","s","u","e","s">>}

\* the tokens that follow an action verb somewhere in the text
TokensAfterVerbs(text) ==
    {action_then_name_at(text, g, action_words[k]) :
        g \in 0..Len(text), k \in 1..Len(action_words)} \ {JNull}

\* C24: the fallback tier's service name is the capture of the first pattern
\* of the cascade that matches; when only the action verbs are left, it is
\* no stoplist word, it is a name whenever some verb is followed by a token
\* that is not on the stoplist, and it is null when no verb is followed by
\* a token.
C24_ServiceNameCascade ==
    FallbackTierReturned =>
        LET text == SearchedText
            captures == EarlierCaptures(text)
            hits == {k \in 1..Len(captures) : captures[k] # JNull}
            name == parsed.service_name
        IN  IF hits # {} THEN name = captures[least(hits)]
            ELSE /\ name # JNull => name.s \notin Stoplist
                 /\ (\E token \in TokensAfterVerbs(text) : token.s \notin Stoplist)
                        => name # JNull
                 /\ TokensAfterVerbs(text) = {} => name = JNull

\* the keyword map in its order
KeywordTimeframes ==
    <<<<<<"t","o","d","a","y">>, <<"2","4","h">>>>, <<<<"y","e","s","t","e","r","d","a","y">>, <<"4","8","h">>>>, <<<<"t","h","i","s"," ","w","e","e","k">>, <<"7","d">>>>,
      <<<<"t","h","i","s"," ","m","o","n","t","h">>, <<"3","0","d">>>>, <<<<"r","e","c","e","n","t">>, <<"2","h">>>>, <<<<"r","e","c","e","n","t","l","y">>, <<"2","h">>>>>>

\* the match of the phrase "last/past/previous/recent N unit-word" at g
PhraseAt(text, g) ==
    first_alt([k \in 1..Len(SpanWords) |-> span_timeframe_at(text, g, SpanWords[k])])

\* the text holds, after one of the four words, the number and a unit word
\* that begins with the letter
PhraseNames(text, number, letter) ==
    \E s \in 1..Len(SpanWords), u \in 1..Len(UnitWords) :
        /\ UnitWords[u][1] = letter
        /\ \/ contains(text, SpanWords[s] \o <<" ">> \o number \o <<" ">> \o UnitWords[u])
           \/ contains(text, SpanWords[s] \o <<" ">> \o number \o UnitWords[u])

\* C25: the fallback tier's timeframe is the first explicit token of digits
\* and m, h, d or w when there is one; else the number and the first letter
\* of the unit word of the first phrase; else the value of the first keyword
\* of the map that the text holds; else "2h".
C25_TimeframeCascade ==
    FallbackTierReturned =>
        LET text == SearchedText
            explicit == {g \in 0..Len(text) : explicit_timeframe_at(text, g) # JNull}
            phrases == {g \in 0..Len(text) : PhraseAt(text, g) # JNull}
            keywords == {k \in 1..Len(KeywordTimeframes) :
                            contains(text, KeywordTimeframes[k][1])}
            timeframe == parsed.timeframe
        IN  IF explicit # {}
            THEN timeframe = explicit_timeframe_at(text, least(explicit))
            ELSE IF phrases # {}
            THEN /\ timeframe = PhraseAt(text, least(phrases))
                 /\ PhraseNames(text, SubSeq(timeframe.s, 1, Len(timeframe.s) - 1),
                                timeframe.s[Len(timeframe.s)])
            ELSE IF keywords # {}
            THEN timeframe = JStr(KeywordTimeframes[least(keywords)][2])
            ELSE timeframe = JStr(<<"2","h">>)

\* the fallback tier took the explicit token of a text that also holds a
\* phrase and a keyword
C25_Witness ==
    /\ FallbackTierReturned
    /\ user_input = JStr(<<"3","0","m"," ","i","n"," ","t","h","e"," ","l","a","s","t"," ","2"," ","h","o","u","r","s"," ","t","o","d","a","y">>)
    /\ parsed.timeframe = JStr(<<"3","0","m">>)

----------------------------------------------------------------------------
\* the intent object the backend may wrap in a code fence
FencedObject == json_loads(DocFull)

\* the permitted fence forms around it: with the tag json and without a tag
FencedReplies == {JStr(JsonFenced(DocFull)), JStr(BareFenced(DocFull))}

\* C26: when the backend's reply is the intent object in a code fence, with
\* the tag json or without a tag, parse returns the intent of the backend
\* tier: the object's intent_type, service_name and timeframe.
C26_FencedReplyAccepted ==
    (pc = "parse_returned" /\ ai_response \in FencedReplies) =>
        /\ parsed # JNull
        /\ parsed.type = FencedObject.intent_type
        /\ parsed.service_name = FencedObject.service_name
        /\ parsed.timeframe = FencedObject.timeframe

----------------------------------------------------------------------------
\* C27: in every state last_timeframe is neither null nor empty; and a step
\* that is not the clear operation, taken with a last_timeframe other than
\* "2h", leaves last_timeframe other than "2h" and, when it resolves an
\* intent, gives the intent a timeframe other than "2h".
C27_TimeframeSticks ==
    /\ [](/\ conversation_context.last_timeframe \notin {JNull, Absent}
          /\ conversation_context.last_timeframe # EmptyStr)
    /\ [][\/ ClearChatHistory
          \/ conversation_context.last_timeframe = JStr(<<"2","h">>)
          \/ /\ conversation_context'.last_timeframe # JStr(<<"2","h">>)
             /\ pc' = "update" => intent'.timeframe # JStr(<<"2","h">>)]_vars

\* the user asked for 2h in a session whose last_timeframe is 30m: the
\* resolved intent and the context after the update have 30m
C27_Witness ==
    /\ pc = "dispatch"
    /\ user_input = JStr(<<"s","t","a","t","u","s"," ","2","h">>)
    /\ parsed.timeframe = JStr(<<"2","h">>)
    /\ context_at_start.last_timeframe = JStr(<<"3","0","m">>)
    /\ intent.timeframe = JStr(<<"3","0","m">>)
    /\ conversation_context.last_timeframe = JStr(<<"3","0","m">>)

----------------------------------------------------------------------------
\* the field holds a service name: it is neither null nor the empty str
HasName(v) == v \notin {JNull, Absent, EmptyStr}

\* C28: after apply_context, an intent that had a service name has the same
\* one; is_followup is true only if the intent had no service name, its type
\* is the context's last_intent and its service name is now the context's
\* last_service, which is not null; and an intent of another type than
\* last_intent has the service name it had.
C28_FollowupOnlyWhenCarried ==
    pc = "update" =>
        /\ HasName(parsed.service_name) => intent.service_name = parsed.service_name
        /\ intent.is_followup = JTrue =>
              /\ ~HasName(parsed.service_name)
              /\ parsed.type = conversation_context.last_intent
              /\ conversation_context.last_service # JNull
              /\ intent.service_name = conversation_context.last_service
        /\ parsed.type # conversation_context.last_intent =>
              /\ intent.service_name = parsed.service_name
              /\ intent.is_followup # JTrue

\* after "Check payment-api 30m", an intent of the same type that names
\* ordercontroller keeps it and is no follow-up
C28_Witness ==
    /\ pc = "update"
    /\ parsed.service_name = JStr(<<"o","r","d","e","r","c","o","n","t","r","o","l","l","e","r">>)
    /\ parsed.type = conversation_context.last_intent
    /\ conversation_context.last_service = JStr(<<"p","a","y","m","e","n","t","-","a","p","i">>)
    /\ intent.service_name = JStr(<<"o","r","d","e","r","c","o","n","t","r","o","l","l","e","r">>)
    /\ intent.is_followup # JTrue

----------------------------------------------------------------------------
\* C29: the output of a pass that returns, in either mode, lists problems of
\* the input, each at most once, in the order of the input: the positions
\* it holds are positions of all_problems and they increase.
C29_OutputIsSubsequence ==
    corr_pc = "returned" =>
        /\ \A k \in 1..Len(service_problems) :
              service_problems[k] \in 1..Len(all_problems)
        /\ \A j, k \in 1..Len(service_problems) :
              j < k => service_problems[j] < service_problems[k]

\* the entities of a problem that have the target id
EntitiesWithId(p) ==
    {k \in 1..Len(UnionEntities(p)) : HasId(UnionEntities(p)[k], entity_id)}

\* an entity-id pass has returned once a problem that has two entities of
\* the target id
C29_Witness ==
    /\ EntityPassReturned
    /\ Len(all_problems) >= 1
    /\ Cardinality(EntitiesWithId(all_problems[1])) = 2
    /\ service_problems = <<1>>

----------------------------------------------------------------------------
\* C30: in every state of a session a history that is not empty begins with
\* the welcome message, and it holds no more than MAX_CHAT_HISTORY messages,
\* of which only the first is the welcome message.
C30_WelcomeFirst ==
    /\ Len(messages) <= MAX_CHAT_HISTORY
    /\ messages # <<>> =>
          /\ Head(messages) = WelcomeMessage
          /\ \A k \in 2..Len(messages) : messages[k] # WelcomeMessage

====
